---- MODULE Spec2Model ----
(***************************************************************************)
(* LDAP authentication and directory-user synchronisation of ragflow:      *)
(*   api/ldap/ldap_auth.py       LDAPConnectionManager, LDAPAuthenticator, *)
(*                               LDAPSyncService                           *)
(*   api/ldap/ldap_scheduler.py  LDAPScheduler (thread based),             *)
(*                               AsyncLDAPScheduler (event-loop based)     *)
(*   api/db/services/ldap_service.py  LDAPConfigService, LDAPUserService   *)
(*   api/apps/ldap_app.py        the admin/login HTTP handlers             *)
(*                                                                         *)
(* The threads of the program (the scheduler loop, the request threads)   *)
(* hold no lock: a handler or a sync_users execution is a sequence of      *)
(* steps, each ending at an access to the stores, to self.config or to the *)
(* directory, and the steps of different threads interleave.               *)
(*                                                                         *)
(* The specifications share the program's actions and differ in the       *)
(* environment they let act (the calls it makes, the store errors it       *)
(* raises in get_active_config and update_sync_status):                    *)
(*   Spec      the scheduler with its clock, start/stop, forced syncs and  *)
(*             configuration requests;                                     *)
(*   SpecSync  reconciliation passes over a changing directory;            *)
(*   SpecLoop    the background loop alone, with fairness;                 *)
(*   SpecConfig  the configuration requests, handled side by side;         *)
(*   SpecAuth  the login: two-phase bind authentication, the record and    *)
(*             the local account, while the configuration is switched off; *)
(*   SpecSessions  a login and a forced sync, for the directory sessions;  *)
(*   SpecMirror  forced passes whose connection, search, upserts,          *)
(*             staleness update and store queries may fail;                *)
(*   SpecProvision  forced passes with the local-account hook;             *)
(*   SpecUpsertRace  upserts of two threads, lookup and write apart;       *)
(*   SpecAuthFrame  a login between the steps of a forced pass;            *)
(*   SpecConfigFrame  configuration requests that carry sync fields;       *)
(*   SpecTicks  the ticks of one loop over the config store's states;      *)
(*   SpecReactivate  forced passes while records are deactivated;          *)
(*   SpecPolicy  a thread-based and an event-loop-based scheduler, each    *)
(*             ticking on its own over one config store.                   *)
(* The store raises in SpecLoop, SpecConfig, SpecAuth, SpecSessions,       *)
(* SpecMirror, SpecAuthFrame, SpecConfigFrame and SpecTicks; in the other  *)
(* specifications, whose state spaces are the largest, its queries         *)
(* succeed (budget.faults).                                                *)
(***************************************************************************)
EXTENDS Integers, Sequences, FiniteSets, TLC

VARIABLES
    now,            \* the wall clock, datetime.now(), in seconds
    configs,        \* LDAPConfig table: sequence of rows, the id is the index
    http,           \* the last answer of create_or_update_config
    rows,           \* LDAPUser table: sequence of rows, the id is the index
    directory,      \* the entries (DNs) the directory server holds
    running,        \* LDAPScheduler.running
    thread,         \* LDAPScheduler.thread: the loop last spawned, 0 for None
    last_sync_time, \* LDAPScheduler.last_sync_time: config id -> time or None
    svc_config,     \* LDAPScheduler.sync_service.config: the cached config object
    loops,          \* the background threads running _run_scheduler
    ex,             \* the sync_users executions, one per calling thread, and their position
    ctl,            \* the caller of start()/stop(): idle, or inside stop()'s join
    budget,         \* calls the environment may still make, store errors it raises
    passes,         \* history: the sync_users calls that returned, in order
    triggers,       \* history: the syncs the scheduler loops triggered, in order
    auth,           \* the last authenticate_user call, what it did, the login's position
    pending,        \* create_or_update_config handlers between lookup and write
    accounts,       \* User table (local accounts): sequence of rows, the id is the index
    upserting,      \* create_or_update_user calls between lookup and write
    policy          \* an LDAPScheduler and an AsyncLDAPScheduler: last_sync_time, ticks

vars == <<now, configs, http, rows, directory, running, thread, last_sync_time,
          svc_config, loops, ex, ctl, budget, passes, triggers, auth, pending,
                   accounts, upserting, policy>>

-----------------------------------------------------------------------------
(* Bounds of the model.                                                    *)

MaxTime == 30
TimeStep == 10
MaxConfigs == 3
MaxRows == 4
MaxForce == 3
MaxSchedForce == 1
MaxRequests == 1
MaxDirChanges == 1
MaxStarts == 2
MaxLogins == 1
MaxLoopStops == 2
MaxMirrorSyncs == 2
MaxConfigRequests == 2
MaxUpserts == 2

(* Program constants.                                                      *)

TickSleep == 10
MinInterval == 30
JoinTimeout == 5
ErrorSleep == 30
DefaultInterval == 30

(* Python's None where a time or an id is expected.                        *)
None == -1

(* timedelta(days=1), in the seconds the clock counts. *)
Day == 86400

Loops == {1, 2}
Forcers == {3}
(* The threads of a pair of schedulers over one store: the loop thread of  *)
(* an LDAPScheduler, the executor thread of an AsyncLDAPScheduler.          *)
PolicyProcs == {4, 5}
Procs == Loops \cup Forcers \cup PolicyProcs
DNs == {"A", "B", "C", "D"}

DNOrder == <<"A", "B", "C", "D">>

(* The entries: uid and password of each DN. "C" is the service account    *)
(* the configuration binds with (bind_dn, bind_password); "D" is the entry  *)
(* of alice under another DN.                                               *)
Uid == [d \in DNs |-> CASE d = "A" -> "alice" [] d = "B" -> "bob"
                         [] d = "D" -> "alice" [] OTHER -> "admin"]
Pw == [d \in DNs |-> CASE d = "A" -> "pa" [] d = "B" -> "pb"
                        [] d = "D" -> "pd" [] OTHER -> "svc"]
ServiceEntry == "C"

(* The attributes of the entries, each with its list of values: bob has    *)
(* two mail values and no displayName, the service account has neither.     *)
Entries ==
    [d \in DNs |->
        CASE d = "A" -> [uid |-> <<"alice">>, mail |-> <<"a@x">>, displayName |-> <<"Alice">>]
          [] d = "B" -> [uid |-> <<"bob">>, mail |-> <<"b@x", "b2@x">>]
          [] d = "D" -> [uid |-> <<"alice">>, mail |-> <<"a@x">>, displayName |-> <<>>]
          [] OTHER -> [uid |-> <<"admin">>]]

(* Python's None where a string is expected. *)
NoValue == ""

get_attr_value_Named(entry, attr_name) ==
    IF attr_name \notin DOMAIN entry \/ entry[attr_name] = <<>> THEN attr_name
    ELSE entry[attr_name][1]

(* _get_attr_value: None when the entry has no such attribute or the        *)
(* attribute has no value, else the value, the first one of several.        *)
get_attr_value(entry, attr_name) ==
    IF attr_name \notin DOMAIN entry THEN NoValue
    ELSE IF entry[attr_name] = <<>> THEN NoValue
    ELSE entry[attr_name][1]

(* config.attr_mapping: the attribute each field is read from. *)
AttrMapping == [username |-> "uid", email |-> "mail", nickname |-> "displayName"]

(* The user_data _get_all_ldap_users (and _get_user_info) builds for the    *)
(* entry d.                                                                 *)
UserData(d) ==
    [dn |-> d,
     username |-> get_attr_value(Entries[d], AttrMapping.username),
     email |-> get_attr_value(Entries[d], AttrMapping.email),
     nickname |-> get_attr_value(Entries[d], AttrMapping.nickname)]

(* Search filters and DN templates are strings; the model keeps them as    *)
(* sequences of tokens: "{}" and "{username}" are replacement fields of    *)
(* str.format, every other token is literal text.                          *)
EnumFilter == <<"(objectClass=person)">>
NoTemplate == <<>>

Min(S) == CHOOSE x \in S : \A y \in S : x <= y
Max2(a, b) == IF a >= b THEN a ELSE b

-----------------------------------------------------------------------------
(* LDAPConfigService                                                       *)

ActiveIds == {i \in DOMAIN configs : configs[i].enabled}

(* The store raises in a query of the kind ("read" in get_active_config,    *)
(* "status" in update_sync_status) where the environment makes it fail.     *)
Raises(kind) == IF kind \in budget.faults THEN BOOLEAN ELSE {FALSE}

(* get_active_config: select().where(enabled == True).first(); no ORDER BY, *)
(* so any enabled row may come back; None when there is none, and None      *)
(* from the except branch (lines 35-37) when the query raises.              *)
get_active_config ==
    IF ActiveIds = {} THEN {None}
    ELSE ActiveIds \cup {None : raises \in Raises("read") \cap {TRUE}}

(* update_config: model.update of config_data.where(id == config_id).      *)
(* Every key the request carries overwrites the column of that name.       *)
update_config(cfgs, id, req) ==
    [cfgs EXCEPT ![id] =
        [@ EXCEPT !.enabled = req.enabled,
                  !.sync_enabled = req.sync_enabled,
                  !.sync_interval = IF req.sync_interval = None THEN @ ELSE req.sync_interval,
                  !.user_dn_template = req.user_dn_template,
                  !.search_filter = req.search_filter,
                  !.auto_create_user = req.auto_create_user,
                  !.sync_status = IF "sync_status" \in DOMAIN req
                                  THEN req.sync_status ELSE @,
                  !.last_sync_time = IF "last_sync_time" \in DOMAIN req
                                     THEN req.last_sync_time ELSE @]]

(* create_config: model.create of config_data; columns the request does    *)
(* not carry take the table's defaults.                                     *)
create_config(cfgs, req) ==
    Append(cfgs,
        [enabled |-> req.enabled,
         sync_enabled |-> req.sync_enabled,
         sync_interval |-> IF req.sync_interval = None THEN DefaultInterval ELSE req.sync_interval,
         sync_status |-> IF "sync_status" \in DOMAIN req
                         THEN req.sync_status ELSE "idle",
         last_sync_time |-> IF "last_sync_time" \in DOMAIN req
                            THEN req.last_sync_time ELSE None,
         user_dn_template |-> req.user_dn_template,
         search_filter |-> req.search_filter,
         auto_create_user |-> req.auto_create_user])

(* update_sync_status: sets sync_status, and last_sync_time when a time is  *)
(* given; when the UPDATE raises the except branch (lines 95-97) logs and   *)
(* returns False, and the row is as it was. No caller looks at the result.  *)
update_sync_status(cfgs, id, status, sync_time, raises) ==
    IF raises THEN cfgs
    ELSE [cfgs EXCEPT ![id] =
            [@ EXCEPT !.sync_status = status,
                      !.last_sync_time = IF sync_time = None THEN @ ELSE sync_time]]

-----------------------------------------------------------------------------
(* create_or_update_config (POST /config)                                  *)

(* req.get('sync_interval', 30) *)
RequestedInterval(req) == IF req.sync_interval = None THEN 30 ELSE req.sync_interval

IntervalRejected_NoCheck(req) == FALSE

(* if sync_interval < 30: return a data error *)
IntervalRejected(req) == RequestedInterval(req) < MinInterval

-----------------------------------------------------------------------------
(* LDAPUserService                                                         *)

(* get_by_dn: the row of the config with that DN, None when there is none. *)
get_by_dn(rs, cfg, dn) ==
    LET m == {i \in DOMAIN rs : rs[i].ldap_config_id = cfg /\ rs[i].ldap_dn = dn}
    IN  IF m = {} THEN None ELSE Min(m)

(* The lookup of create_or_update_user. The data sync_users and the login  *)
(* pass always carries the key 'dn', so the first branch of the            *)
(* if/elif/elif chain is the one taken.                                     *)
LookupExisting_Never(rs, cfg, dn) == None

LookupExisting(rs, cfg, dn) == get_by_dn(rs, cfg, dn)

(* A row cleanup_stale_users deleted: the id it had (a uuid) is given to no *)
(* other row, so the position stays and holds no row; no query finds it and *)
(* an UPDATE ... WHERE id changes nothing.                                  *)
Deleted == [ldap_config_id |-> None, ldap_dn |-> NoValue, ldap_username |-> NoValue,
            email |-> NoValue, nickname |-> NoValue, is_active |-> FALSE,
            sync_status |-> "deleted", user_id |-> None, update_date |-> 0]

update_user_KeepsStatus(rs, existing, data) ==
    [rows |-> [rs EXCEPT ![existing] =
                 [@ EXCEPT !.email = data.email, !.nickname = data.nickname,
                           !.sync_status = "synced", !.update_date = now]],
     user |-> existing, created |-> FALSE]

update_user_ReportsCreated(rs, existing, data) ==
    [rows |-> [rs EXCEPT ![existing] =
                 [@ EXCEPT !.email = data.email, !.nickname = data.nickname,
                           !.is_active = TRUE, !.sync_status = "synced",
                           !.update_date = now]],
     user |-> existing, created |-> TRUE]

(* Lines 161-179: the update of the existing row, and the row read again;   *)
(* the DN, the username and the link to a local account stay as they are.   *)
(* A row deleted since the lookup is not updated and not found again.       *)
update_user(rs, existing, data) ==
    IF rs[existing] = Deleted
    THEN [rows |-> rs, user |-> None, created |-> FALSE]
    ELSE [rows |-> [rs EXCEPT ![existing] =
                      [@ EXCEPT !.email = data.email, !.nickname = data.nickname,
                                !.is_active = TRUE, !.sync_status = "synced",
                                !.update_date = now]],
          user |-> existing, created |-> FALSE]

KeyTaken_Unchecked(rs, cfg, dn) == FALSE

(* The LDAPUser table's uniqueness key (config, distinguished name): the    *)
(* store refuses a second row with the key of an existing one.              *)
KeyTaken(rs, cfg, dn) ==
    \E i \in DOMAIN rs : rs[i].ldap_config_id = cfg /\ rs[i].ldap_dn = dn

(* set_user_status: is_active and update_date of the row with that id; the *)
(* sync-status stays.                                                       *)
set_user_status(rs, user_id, is_active) ==
    IF rs[user_id] = Deleted THEN rs
    ELSE [rs EXCEPT ![user_id] = [@ EXCEPT !.is_active = is_active,
                                           !.update_date = now]]

(* update_login_time: last_login_time and update_date of the row with that *)
(* id.                                                                      *)
update_login_time(rs, user_id) ==
    IF rs[user_id] = Deleted THEN rs
    ELSE [rs EXCEPT ![user_id] = [@ EXCEPT !.update_date = now]]

(* model.update(user_id=...).where(id == ldap_user.id): the link of a row   *)
(* to a local account.                                                      *)
link_user(rs, user, account) ==
    IF rs[user] = Deleted THEN rs
    ELSE [rs EXCEPT ![user] = [@ EXCEPT !.user_id = account]]

(* Lines 181-203: model.create of the new row. The table holds at most      *)
(* MaxRows rows: a create beyond that raises like any other store failure,  *)
(* and so does one the uniqueness key refuses; create_or_update_user        *)
(* answers an exception with (None, False).                                 *)
insert_user(rs, cfg, data) ==
    IF Len(rs) >= MaxRows \/ KeyTaken(rs, cfg, data.dn)
    THEN [rows |-> rs, user |-> None, created |-> FALSE]
    ELSE [rows |-> Append(rs, [ldap_config_id |-> cfg, ldap_dn |-> data.dn,
                               ldap_username |-> data.username,
                               email |-> data.email, nickname |-> data.nickname,
                               is_active |-> TRUE, sync_status |-> "synced",
                               user_id |-> None, update_date |-> now]),
          user |-> Len(rs) + 1, created |-> TRUE]

(* A row of the LDAPUser table as earlier passes and logins left it for the *)
(* entry dn: synced and active or stale and inactive, linked to account or  *)
(* to none, last written at date.                                           *)
StoredUser(cfg, dn, status, account, date) ==
    [ldap_config_id |-> cfg, ldap_dn |-> dn, ldap_username |-> UserData(dn).username,
     email |-> UserData(dn).email, nickname |-> UserData(dn).nickname,
     is_active |-> status = "synced", sync_status |-> status,
     user_id |-> account, update_date |-> date]

(* Lines 157-208: what create_or_update_user does once the lookup has      *)
(* answered existing: (user, created); (None, False) when the store raises. *)
write_user(rs, cfg, dn, existing, fail) ==
    IF fail THEN [rows |-> rs, user |-> None, created |-> FALSE]
    ELSE IF existing # None THEN update_user(rs, existing, UserData(dn))
    ELSE insert_user(rs, cfg, UserData(dn))

IsStaleTarget_All(r, cfg, active_dns) == r.ldap_config_id = cfg /\ r.is_active

(* The where clause of mark_stale_users. *)
IsStaleTarget(r, cfg, active_dns) ==
    r.ldap_config_id = cfg /\ r.ldap_dn \notin active_dns /\ r.is_active

(* mark_stale_users: is_active=False, sync_status='stale' and the update    *)
(* date on the rows selected; returns how many. When the store raises       *)
(* (fail) the exception is logged inside mark_stale_users, no row changes    *)
(* and 0 is returned.                                                       *)
mark_stale_users(rs, cfg, active_dns, fail) ==
    IF fail THEN [rows |-> rs, count |-> 0]
    ELSE
    [rows |-> [i \in DOMAIN rs |->
                 IF IsStaleTarget(rs[i], cfg, active_dns)
                 THEN [rs[i] EXCEPT !.is_active = FALSE, !.sync_status = "stale",
                                    !.update_date = now]
                 ELSE rs[i]],
     count |-> Cardinality({i \in DOMAIN rs : IsStaleTarget(rs[i], cfg, active_dns)})]

(* cleanup_stale_users(config_id, days): the rows of the config that are    *)
(* 'stale' and whose update date is before now - days are deleted; returns  *)
(* how many.                                                                *)
cleanup_stale_users(rs, cfg, days) ==
    LET cutoff_date == now - days * Day
        gone == {i \in DOMAIN rs : /\ rs[i].ldap_config_id = cfg
                                   /\ rs[i].sync_status = "stale"
                                   /\ rs[i].update_date < cutoff_date}
    IN  [rows |-> [i \in DOMAIN rs |-> IF i \in gone THEN Deleted ELSE rs[i]],
         count |-> Cardinality(gone)]

-----------------------------------------------------------------------------
(* LDAPSyncService.sync_users                                              *)

NoConfig == [id |-> None, enabled |-> FALSE, sync_enabled |-> FALSE,
             auto_create_user |-> FALSE, search_filter |-> EnumFilter]

(* The config object a query returns: the row's values at that moment. *)
Snapshot(c) ==
    IF c = None THEN NoConfig
    ELSE [id |-> c, enabled |-> configs[c].enabled,
          sync_enabled |-> configs[c].sync_enabled,
          auto_create_user |-> configs[c].auto_create_user,
          search_filter |-> configs[c].search_filter]

(* The LDAPSyncService a thread calls sync_users on: sync_service of the   *)
(* scheduler for its loop threads and for force_sync, and one of its own    *)
(* for each scheduler of the pair that ticks together.                      *)
ServiceOf(p) == IF p \in PolicyProcs THEN p - 2 ELSE 1

ZeroStats == [total_found |-> 0, created |-> 0, updated |-> 0,
              deactivated |-> 0, errors |-> 0]

(* What one sync_users call did, as its caller and the history see it. *)
NoSummary ==
    [p |-> 0, ok |-> FALSE, empty |-> TRUE, cfg |-> None, sok |-> FALSE, dir |-> {},
     failed |-> {}, stats |-> ZeroStats, pre |-> <<>>, post |-> <<>>, clean |-> TRUE,
     at |-> None, bound |-> FALSE, mfail |-> FALSE, running |-> FALSE, active |-> {},
     status |-> "none", cfg_last0 |-> None, cfg_last |-> None,
     lst0 |-> <<>>, lst |-> <<>>, fcfg |-> None, stamped |-> None]

NoHook == [user |-> None, email |-> NoValue, username |-> NoValue, account |-> None]

IdleEx == [pc |-> "idle", cfg |-> None, obj |-> NoConfig, todo |-> <<>>, dir |-> {},
           sok |-> FALSE, active_dns |-> {}, failed |-> {}, stats |-> ZeroStats,
           pre |-> <<>>, post |-> <<>>, clean |-> TRUE, last0 |-> None,
           bound |-> FALSE, mfail |-> FALSE, auto |-> FALSE, auto0 |-> FALSE,
           got |-> NoConfig, existing |-> None, hook |-> NoHook, ret |-> NoSummary]

(* sync_users has passed its preconditions and has not returned. *)
InFlight(p) == ex[p].cfg # None

(* The server's answer to a search filter as it is sent:                   *)
(* (objectClass=person) selects every entry under the base, an equality     *)
(* filter the entries that have the value it names.                         *)
Selects(d, filter) ==
    filter = EnumFilter \/ \E i \in DOMAIN filter : filter[i] = Uid[d]

(* _get_all_ldap_users with the object cfg its get_config returned: no     *)
(* object gives the empty list; otherwise the entries of the search, in the *)
(* server's order; the filter goes to the server as the config holds it,    *)
(* its replacement fields not filled in; an LDAPException of the search is  *)
(* logged and the list stays empty.                                         *)
Enumerate(dir, cfg, searchOk) ==
    IF cfg.id = None THEN <<>>
    ELSE SelectSeq(DNOrder, LAMBDA d : /\ searchOk
                                      /\ d \in dir
                                      /\ Selects(d, cfg.search_filter))

(* The return of sync_users by the thread p whose execution is e: (ok,     *)
(* stats) with the stores as they are (cfgs the config table).              *)
Summary(p, e, ok, empty, cfgs) ==
    [NoSummary EXCEPT
        !.p = p, !.ok = ok, !.empty = empty, !.cfg = e.cfg, !.sok = e.sok,
        !.dir = e.dir, !.failed = e.failed, !.stats = e.stats,
        !.pre = e.pre, !.post = e.post, !.clean = e.clean, !.at = now,
        !.bound = e.bound, !.mfail = e.mfail, !.running = running,
        !.active = ActiveIds,
        !.status = IF e.cfg = None THEN "none" ELSE cfgs[e.cfg].sync_status,
        !.cfg_last0 = e.last0,
        !.cfg_last = IF e.cfg = None THEN None ELSE cfgs[e.cfg].last_sync_time,
        !.lst0 = last_sync_time, !.lst = last_sync_time]

(* History of the calls that returned, oldest first; budget.keep says how  *)
(* many of the last ones are kept.                                          *)
Remember(h, s) == IF budget.keep = 0 THEN h ELSE IF Len(h) < budget.keep THEN Append(h, s) ELSE Tail(h) \o <<s>>

(* The rows as the history keeps them. *)
Kept(rs) == IF budget.keep = 0 THEN <<>> ELSE rs

NoLoop == [pc |-> "none", wake |-> None, cfg |-> None, tnow |-> None, need |-> None,
           slept |-> None, boom |-> FALSE]

SleepLoop_Ends(t, secs) == NoLoop

(* time.sleep(secs) inside the while loop of _run_scheduler. *)
SleepLoop(t, secs) ==
    [pc |-> "sleep", wake |-> now + secs, cfg |-> None, tnow |-> None, need |-> None,
     slept |-> now, boom |-> FALSE]

(* force_sync line 102: if success *)
Stamps(ok) == ok

(* sync_users returns (ok, stats) to its caller, which goes on:            *)
(*   _check_and_sync logs, returns, and _run_scheduler sleeps 10 s;         *)
(*   force_sync, on success, goes on to stamp last_sync_time.               *)
Returns(p, s) ==
    /\ loops' = IF p \in Loops
                THEN [loops EXCEPT ![p] = SleepLoop(p, TickSleep)]
                ELSE loops
    /\ IF p \in Forcers /\ Stamps(s.ok)
       THEN /\ ex' = [ex EXCEPT ![p] = [IdleEx EXCEPT !.pc = "forced", !.ret = s]]
            /\ passes' = passes
       ELSE /\ ex' = [ex EXCEPT ![p] = IdleEx]
            /\ passes' = Remember(passes, s)

(* if not config or not config.enabled or not config.sync_enabled *)
PreconditionFails(cfg) == cfg.id = None \/ ~cfg.enabled \/ ~cfg.sync_enabled

(* The execution as sync_users is called: get_config tests self.config     *)
(* (line 260, if not self.config: the store is asked only while it is       *)
(* None).                                                                   *)
Called(p) ==
    [IdleEx EXCEPT !.pc = IF svc_config[ServiceOf(p)].id # None THEN "begin" ELSE "query"]

(* sync_users is called by the thread p. lst is the caller's               *)
(* last_sync_time as the call is made.                                      *)
SyncStart(p, lst) ==
    /\ last_sync_time' = lst
    /\ ex' = [ex EXCEPT ![p] = Called(p)]
    /\ loops' = IF p \in Loops
                THEN [loops EXCEPT ![p] = [@ EXCEPT !.pc = "sync"]]
                ELSE loops
    /\ UNCHANGED <<configs, rows, svc_config, passes>>

(* get_config line 261, right-hand side: the store is asked for the active *)
(* config.                                                                  *)
SyncQuery(p) ==
    /\ ex[p].pc = "query"
    /\ \E c \in get_active_config :
         ex' = [ex EXCEPT ![p] = [@ EXCEPT !.pc = "assign", !.got = Snapshot(c)]]
    /\ UNCHANGED <<now, configs, http, rows, directory, running, thread,
                   last_sync_time, svc_config, loops, ctl, budget, passes,
                   triggers, auth, pending, accounts, upserting, policy>>

(* get_config line 261, the assignment: self.config = the object the store *)
(* returned. The caller is sync_users (line 271) before its preconditions,  *)
(* _get_all_ldap_users (line 341) after them.                               *)
SyncAssign(p) ==
    /\ ex[p].pc = "assign"
    /\ svc_config' = [svc_config EXCEPT ![ServiceOf(p)] = ex[p].got]
    /\ ex' = [ex EXCEPT ![p] =
                [@ EXCEPT !.pc = IF ex[p].cfg = None THEN "begin" ELSE "users",
                          !.got = NoConfig]]
    /\ UNCHANGED <<now, configs, http, rows, directory, running, thread,
                   last_sync_time, loops, ctl, budget, passes,
                   triggers, auth, pending, accounts, upserting, policy>>

(* get_config line 262, return self.config, to sync_users (line 271), and  *)
(* lines 272-273: the preconditions on that object; when one fails          *)
(* sync_users returns (False, {}).                                          *)
SyncBegin(p) ==
    /\ ex[p].pc = "begin"
    /\ LET config == svc_config[ServiceOf(p)]
       IN  IF PreconditionFails(config)
           THEN Returns(p, Summary(p, [IdleEx EXCEPT !.pre = Kept(rows),
                                                     !.post = Kept(rows)],
                                   FALSE, TRUE, configs))
           ELSE /\ ex' = [ex EXCEPT ![p] = [@ EXCEPT !.pc = "running", !.obj = config]]
                /\ UNCHANGED <<passes, loops>>
    /\ UNCHANGED <<now, configs, http, rows, directory, running, thread,
                   last_sync_time, svc_config, ctl, budget, triggers, auth,
                   pending, accounts, upserting, policy>>

(* Line 289: update_sync_status(config.id, 'running'), its result dropped. *)
SyncRunning(p) ==
    /\ ex[p].pc = "running"
    /\ LET config == ex[p].obj
       IN  /\ \E raises \in Raises("status") :
                 configs' = update_sync_status(configs, config.id, "running", None, raises)
           /\ ex' = [q \in Procs |->
                       IF q = p
                       THEN [ex[p] EXCEPT !.pc = "connect", !.cfg = config.id,
                                          !.obj = NoConfig,
                                          !.pre = Kept(rows),
                                          !.last0 = configs[config.id].last_sync_time,
                                          !.auto = config.auto_create_user,
                                          !.auto0 = configs[config.id].auto_create_user,
                                          !.clean = \A r \in Procs \ {p} : ~InFlight(r)]
                       ELSE IF InFlight(q) THEN [ex[q] EXCEPT !.clean = FALSE]
                       ELSE ex[q]]
    /\ UNCHANGED <<now, http, rows, directory, running, thread, last_sync_time,
                   svc_config, loops, ctl, budget, passes, triggers, auth,
                   pending, accounts, upserting, policy>>

(* Lines 291-295 and 341, 260: the session is opened, which touches no     *)
(* state of the program (a failed bind raises ConnectionError: sync-status  *)
(* 'error', return False); then _get_all_ldap_users calls get_config, which *)
(* tests self.config.                                                       *)
SyncConnect(p, connOk) ==
    /\ ex[p].pc = "connect"
    /\ IF ~connOk
       THEN /\ \E raises \in Raises("status") :
                 configs' = update_sync_status(configs, ex[p].cfg, "error", None, raises)
            /\ Returns(p, Summary(p, [ex[p] EXCEPT !.post = Kept(rows)],
                                  FALSE, FALSE, configs'))
       ELSE /\ ex' = [ex EXCEPT ![p] =
                        [@ EXCEPT !.bound = TRUE,
                                  !.pc = IF svc_config[ServiceOf(p)].id # None
                                         THEN "users" ELSE "query"]]
            /\ UNCHANGED <<configs, passes, loops>>
    /\ UNCHANGED <<now, http, rows, directory, running, thread, last_sync_time,
                   svc_config, ctl, budget, triggers, auth, pending,
                   accounts, upserting, policy>>

(* get_config line 262, return self.config, to _get_all_ldap_users, and    *)
(* lines 342-343: if not config: return [], with nothing sent to the        *)
(* directory.                                                               *)
SyncUsers(p) ==
    /\ ex[p].pc = "users"
    /\ LET config == svc_config[ServiceOf(p)]
       IN  ex' = [ex EXCEPT ![p] =
                    IF config.id = None
                    THEN [@ EXCEPT !.pc = "upsert", !.todo = Enumerate(directory, config, TRUE)]
                    ELSE [@ EXCEPT !.pc = "search", !.obj = config]]
    /\ UNCHANGED <<now, configs, http, rows, directory, running, thread,
                   last_sync_time, svc_config, loops, ctl, budget, passes,
                   triggers, auth, pending, accounts, upserting, policy>>

(* Lines 350-374 and 295: connection.search and the user_data of its       *)
(* entries; total_found.                                                    *)
SyncSearch(p, searchOk) ==
    /\ ex[p].pc = "search"
    /\ LET ldap_users == Enumerate(directory, ex[p].obj, searchOk)
       IN  ex' = [ex EXCEPT ![p] =
                    [@ EXCEPT !.pc = "upsert",
                              !.obj = NoConfig,
                              !.todo = ldap_users,
                              !.dir = {ldap_users[i] : i \in DOMAIN ldap_users},
                              !.sok = searchOk,
                              !.stats = [@ EXCEPT !.total_found = Len(ldap_users)]]]
    /\ UNCHANGED <<now, configs, http, rows, directory, running, thread,
                   last_sync_time, svc_config, loops, ctl, budget, passes,
                   triggers, auth, pending, accounts, upserting, policy>>

ObservedAfter_Dropped(active_dns, dn, user) == active_dns

(* if ldap_user: active_dns.append(ldap_user_data['dn']) *)
ObservedAfter(active_dns, dn, user) ==
    IF user # None THEN active_dns \cup {dn} ELSE active_dns

Tally_UpdatedAlways(stats, user, created) ==
    [stats EXCEPT !.created = IF user # None /\ created THEN @ + 1 ELSE @,
                  !.updated = IF user # None THEN @ + 1 ELSE @,
                  !.errors = IF user = None THEN @ + 1 ELSE @]

(* Lines 304-313: the counter the entry is counted in. *)
Tally(stats, user, created) ==
    [stats EXCEPT !.created = IF user # None /\ created THEN @ + 1 ELSE @,
                  !.updated = IF user # None /\ ~created THEN @ + 1 ELSE @,
                  !.errors = IF user = None THEN @ + 1 ELSE @]


(* f"{ldap_user.ldap_username}@ldap.local" *)
LocalEmail(username) ==
    CASE username = "alice" -> "alice@ldap.local"
      [] username = "bob" -> "bob@ldap.local"
      [] username = "admin" -> "admin@ldap.local"
      [] OTHER -> "None@ldap.local"

(* UserService.query(email=...): the local accounts with that email. *)
AccountsByEmail(accts, email) == {i \in DOMAIN accts : accts[i].email = email}

(* What UserService.save hands back after it stored the account           *)
(* user_data: the saved object, or the number of rows written, which has  *)
(* no id to link to. UserService lies outside this code.                   *)
SaveResults == {"object", "count"}

(* The account user_data describes. *)
NewAccount(email, username) ==
    [email |-> IF email # NoValue THEN email ELSE LocalEmail(username),
     login_channel |-> "ldap"]

Provisions_Always(auto) == TRUE

(* if config.auto_create_user, on the config object the pass holds *)
Provisions(auto) == auto

(* Lines 299-303 and ldap_service lines 147-155: the next entry of          *)
(* ldap_users, and the lookup of create_or_update_user for it.              *)
SyncLookup(p) ==
    /\ ex[p].pc = "upsert"
    /\ ex[p].todo # <<>>
    /\ ex' = [ex EXCEPT ![p] =
                [@ EXCEPT !.pc = "write",
                          !.existing = LookupExisting(rows, ex[p].cfg, Head(ex[p].todo))]]
    /\ UNCHANGED <<now, configs, http, rows, directory, running, thread,
                   last_sync_time, svc_config, loops, ctl, budget, passes,
                   triggers, auth, pending, accounts, upserting, policy>>

(* ldap_service lines 157-208 and lines 305-319: the write of              *)
(* create_or_update_user on what its lookup answered, the counters, and,    *)
(* for a created record under auto_create_user, the call of                 *)
(* _create_system_user, whose first statement with an email is the query    *)
(* for the accounts that have it.                                           *)
SyncWrite(p, fail) ==
    /\ ex[p].pc = "write"
    /\ LET dn == Head(ex[p].todo)
           r == write_user(rows, ex[p].cfg, dn, ex[p].existing, fail)
           hooked == r.created /\ Provisions(ex[p].auto)
       IN  /\ rows' = r.rows
           /\ ex' = [ex EXCEPT ![p] =
                [@ EXCEPT !.pc = IF ~hooked THEN "upsert"
                                 ELSE IF UserData(dn).email # NoValue THEN "hookquery"
                                 ELSE "hooksave",
                          !.hook = IF hooked
                                   THEN [user |-> r.user, email |-> UserData(dn).email,
                                         username |-> UserData(dn).username,
                                         account |-> None]
                                   ELSE NoHook,
                          !.existing = None,
                          !.todo = Tail(@),
                          !.active_dns = ObservedAfter(@, dn, r.user),
                          !.failed = IF r.user = None THEN @ \cup {dn} ELSE @,
                          !.stats = Tally(@, r.user, r.created)]]
    /\ UNCHANGED <<now, configs, http, directory, running, thread, last_sync_time,
                   svc_config, loops, ctl, budget, passes, triggers, auth, pending,
                   accounts, upserting, policy>>

(* _create_system_user lines 396-398: UserService.query(email=...); an     *)
(* account with the email is the one to link to (existing_users[0] of a     *)
(* query without an order), none leads to the save.                         *)
SyncHookQuery(p) ==
    /\ ex[p].pc = "hookquery"
    /\ LET existing_users == AccountsByEmail(accounts, ex[p].hook.email)
       IN  IF existing_users = {}
           THEN ex' = [ex EXCEPT ![p] = [@ EXCEPT !.pc = "hooksave"]]
           ELSE \E i \in existing_users :
                   ex' = [ex EXCEPT ![p] = [@ EXCEPT !.pc = "hooklink", !.hook.account = i]]
    /\ UNCHANGED <<now, configs, http, rows, directory, running, thread,
                   last_sync_time, svc_config, loops, ctl, budget, passes,
                   triggers, auth, pending, accounts, upserting, policy>>

(* Lines 408-421: UserService.save of the new account; when save hands     *)
(* back no object the link raises, the exception is logged and the hook     *)
(* returns False.                                                           *)
SyncHookSave(p, res) ==
    /\ ex[p].pc = "hooksave"
    /\ accounts' = Append(accounts, NewAccount(ex[p].hook.email, ex[p].hook.username))
    /\ ex' = [ex EXCEPT ![p] =
                IF res = "object"
                THEN [@ EXCEPT !.pc = "hooklink", !.hook.account = Len(accounts) + 1]
                ELSE [@ EXCEPT !.pc = "upsert", !.hook = NoHook]]
    /\ UNCHANGED <<now, configs, http, rows, directory, running, thread,
                   last_sync_time, svc_config, loops, ctl, budget, passes,
                   triggers, auth, pending, upserting, policy>>

(* Lines 400-405 and 422-427: the UPDATE that links the record to the      *)
(* account.                                                                 *)
SyncHookLink(p) ==
    /\ ex[p].pc = "hooklink"
    /\ rows' = link_user(rows, ex[p].hook.user, ex[p].hook.account)
    /\ ex' = [ex EXCEPT ![p] = [@ EXCEPT !.pc = "upsert", !.hook = NoHook]]
    /\ UNCHANGED <<now, configs, http, directory, running, thread,
                   last_sync_time, svc_config, loops, ctl, budget, passes,
                   triggers, auth, pending, accounts, upserting, policy>>

(* A directory operation as the server sees it. *)
Ev(op, dn, pw, ok) == [op |-> op, dn |-> dn, pw |-> pw, ok |-> ok]

disconnect_Skipped(dn) == <<>>

(* LDAPConnectionManager.disconnect on a manager whose connection is bound *)
(* as dn: connection.unbind(), connection = None.                           *)
disconnect(dn) == <<Ev("unbind", dn, "", TRUE)>>

(* __exit__ -> disconnect, on the session connect() bound with the         *)
(* config's own identity (no bind_dn given): it stays bound only if         *)
(* disconnect issued no unbind.                                             *)
Released(bound) == bound /\ disconnect(<<>>) = <<>>

(* Lines 321-324: the staleness pass, and the session is released. *)
SyncFinish(p, staleFail) ==
    /\ ex[p].pc = "upsert"
    /\ ex[p].todo = <<>>
    /\ LET m == mark_stale_users(rows, ex[p].cfg, ex[p].active_dns, staleFail)
       IN  /\ rows' = m.rows
           /\ ex' = [ex EXCEPT ![p] =
                       [@ EXCEPT !.pc = "complete",
                                 !.stats = [@ EXCEPT !.deactivated = m.count],
                                 !.post = Kept(m.rows),
                                 !.bound = Released(@),
                                 !.mfail = staleFail]]
    /\ UNCHANGED <<now, configs, http, directory, running, thread, last_sync_time,
                   svc_config, loops, ctl, budget, passes, triggers, auth, pending,
                   accounts, upserting, policy>>

(* Lines 327-332: sync-status 'completed' with the time, return True. *)
SyncComplete(p) ==
    /\ ex[p].pc = "complete"
    /\ \E raises \in Raises("status") :
         configs' = update_sync_status(configs, ex[p].cfg, "completed", now, raises)
    /\ Returns(p, Summary(p, ex[p], TRUE, FALSE, configs'))
    /\ UNCHANGED <<now, http, rows, directory, running, thread, last_sync_time,
                   svc_config, ctl, budget, triggers, auth, pending,
                   accounts, upserting, policy>>

(* LDAPScheduler.force_sync (POST /sync), on the thread of the request:    *)
(* the call of sync_users.                                                  *)
ForceSync(p) ==
    /\ p \in Forcers
    /\ ex[p].pc = "idle"
    /\ budget.force > 0
    /\ budget' = [budget EXCEPT !.force = @ - 1]
    /\ SyncStart(p, last_sync_time)
    /\ UNCHANGED <<now, http, directory, running, thread, ctl, triggers, auth, pending,
                   accounts, upserting, policy>>

(* force_sync lines 105-106, after a sync_users that returned success:     *)
(* config = get_active_config(); with None, for no enabled row or for a     *)
(* query that raised, force_sync returns.                                   *)
ForceLookup(p) ==
    /\ ex[p].pc = "forced"
    /\ \E c \in get_active_config :
         IF c = None
         THEN /\ ex' = [ex EXCEPT ![p] = IdleEx]
              /\ passes' = Remember(passes, [ex[p].ret EXCEPT !.active = ActiveIds,
                                                             !.lst0 = last_sync_time,
                                                             !.lst = last_sync_time])
         ELSE /\ ex' = [ex EXCEPT ![p] =
                          [@ EXCEPT !.pc = "stamp", !.ret.fcfg = c,
                                    !.ret.active = ActiveIds]]
              /\ passes' = passes
    /\ UNCHANGED <<now, configs, http, rows, directory, running, thread,
                   last_sync_time, svc_config, loops, ctl, budget,
                   triggers, auth, pending, accounts, upserting, policy>>

(* force_sync line 107: self.last_sync_time[config.id] = datetime.now(),   *)
(* and the return.                                                          *)
ForceRecord(p) ==
    /\ ex[p].pc = "stamp"
    /\ last_sync_time' = [last_sync_time EXCEPT ![ex[p].ret.fcfg] = now]
    /\ passes' = Remember(passes, [ex[p].ret EXCEPT !.lst0 = last_sync_time,
                                                    !.lst = last_sync_time',
                                                    !.stamped = now])
    /\ ex' = [ex EXCEPT ![p] = IdleEx]
    /\ UNCHANGED <<now, configs, http, rows, directory, running, thread,
                   svc_config, loops, ctl, budget,
                   triggers, auth, pending, accounts, upserting, policy>>

(* The directory's content changes. *)
DirChange(d) ==
    /\ budget.dirchg > 0
    /\ d # directory
    /\ directory' = d
    /\ budget' = [budget EXCEPT !.dirchg = @ - 1]
    /\ UNCHANGED <<now, configs, http, rows, running, thread, last_sync_time,
                   svc_config, loops, ex, ctl, passes, triggers, auth, pending,
                   accounts, upserting, policy>>

(* LDAPUserService.cleanup_stale_users(config_id, days), called by an      *)
(* operator.                                                                *)
CleanupStaleUsers(cfg, days) ==
    /\ budget.requests > 0
    /\ budget' = [budget EXCEPT !.requests = @ - 1]
    /\ cfg \in DOMAIN configs
    /\ rows' = cleanup_stale_users(rows, cfg, days).rows
    /\ UNCHANGED <<now, configs, http, directory, running, thread, last_sync_time,
                   svc_config, loops, ex, ctl, passes, triggers, auth, pending,
                   accounts, upserting, policy>>

-----------------------------------------------------------------------------
(* LDAPScheduler                                                           *)

Alive(t) == loops[t].pc # "none"

(* start(): if self.running: return *)
SpawnGuard == ~running

(* start(): one more thread runs _run_scheduler unless running is set. *)
Start ==
    /\ ctl.pc = "idle"
    /\ budget.starts > 0
    /\ budget' = [budget EXCEPT !.starts = @ - 1]
    /\ IF SpawnGuard
       THEN /\ \E t \in Loops : ~Alive(t)
            /\ LET t == Min({u \in Loops : ~Alive(u)})
               IN  /\ loops' = [loops EXCEPT ![t] = [NoLoop EXCEPT !.pc = "top"]]
                   /\ thread' = t
            /\ running' = TRUE
       ELSE UNCHANGED <<running, thread, loops>>
    /\ UNCHANGED <<now, configs, http, rows, directory, last_sync_time, svc_config,
                   ex, ctl, passes, triggers, auth, pending,
                   accounts, upserting, policy>>

(* stop(): running = False, then thread.join(timeout=5) when the thread is *)
(* alive.                                                                   *)
Stop ==
    /\ ctl.pc = "idle"
    /\ budget.stops > 0
    /\ budget' = [budget EXCEPT !.stops = @ - 1]
    /\ running' = FALSE
    /\ ctl' = IF thread # 0 /\ Alive(thread)
              THEN [pc |-> "join", deadline |-> now + JoinTimeout]
              ELSE ctl
    /\ UNCHANGED <<now, configs, http, rows, directory, thread, last_sync_time,
                   svc_config, loops, ex, passes, triggers, auth, pending,
                   accounts, upserting, policy>>

(* join returns: the thread ended, or the 5 s are over. *)
StopReturn ==
    /\ ctl.pc = "join"
    /\ ~Alive(thread) \/ now >= ctl.deadline
    /\ ctl' = [pc |-> "idle", deadline |-> None]
    /\ UNCHANGED <<now, configs, http, rows, directory, running, thread,
                   last_sync_time, svc_config, loops, ex, budget, passes,
                   triggers, auth, pending,
                   accounts, upserting, policy>>

(* sync_interval = max(config.sync_interval, 30);                          *)
(* not last_sync or (now - last_sync).total_seconds() >= sync_interval      *)
DueNow(last, interval, t) == last = None \/ t - last >= Max2(interval, MinInterval)

TickSkips_EnabledOnly(cfgs, c) == c = None \/ ~cfgs[c].enabled

(* _check_and_sync line 69:                                                *)
(* if not config or not config.enabled or not config.sync_enabled: return   *)
TickSkips(cfgs, c) == c = None \/ ~cfgs[c].enabled \/ ~cfgs[c].sync_enabled

Escapes_ToRunScheduler(boom) == boom

(* _check_and_sync lines 66 and 95-96: the whole tick is inside             *)
(* try ... except Exception, which logs and returns: an exception raised in *)
(* the tick does not leave _check_and_sync.                                 *)
Escapes(boom) == FALSE

(* _run_scheduler lines 57-62: time.sleep(10) after _check_and_sync        *)
(* returned, time.sleep(30) in the handler of an exception it let out.      *)
Pause(escaped) == IF escaped THEN ErrorSleep ELSE TickSleep

LoopGoesOn_Always(r) == TRUE

(* _run_scheduler line 56: while self.running *)
LoopGoesOn(r) == r

(* _run_scheduler's loop test and lines 68-80 of _check_and_sync: the      *)
(* thread ends when running is False; otherwise it reads the active config  *)
(* and the time of the last attempt and decides whether a sync is due.      *)
(* boom: an exception is raised in the tick (for instance max() on a        *)
(* sync_interval that is not a number).                                     *)
LoopCheck(t, boom) ==
    /\ loops[t].pc = "top"
    /\ IF ~LoopGoesOn(running)
       THEN loops' = [loops EXCEPT ![t] = NoLoop]
       ELSE IF boom
       THEN loops' = [loops EXCEPT ![t] =
                        [SleepLoop(t, Pause(Escapes(boom))) EXCEPT !.boom = TRUE]]
       ELSE \E c \in get_active_config :
              IF TickSkips(configs, c)
              THEN loops' = [loops EXCEPT ![t] = SleepLoop(t, TickSleep)]
              ELSE IF DueNow(last_sync_time[c], configs[c].sync_interval, now)
              THEN loops' = [loops EXCEPT ![t] =
                        [pc |-> "armed", wake |-> None, cfg |-> c, tnow |-> now,
                         need |-> Max2(configs[c].sync_interval, MinInterval),
                         slept |-> None, boom |-> FALSE]]
              ELSE loops' = [loops EXCEPT ![t] = SleepLoop(t, TickSleep)]
    /\ UNCHANGED <<now, configs, http, rows, directory, running, thread,
                   last_sync_time, svc_config, ex, ctl, budget, passes, triggers, auth, pending,
                   accounts, upserting, policy>>

AttemptStamp_Skipped(lst, c, t) == lst

(* self.last_sync_time[config.id] = now, line 85. *)
AttemptStamp(lst, c, t) == [lst EXCEPT ![c] = t]

(* Lines 85-88: the attempt is recorded with the time read at line 73,     *)
(* then sync_users is called.                                               *)
LoopTrigger(t) ==
    /\ loops[t].pc = "armed"
    /\ triggers' = [triggers EXCEPT ![loops[t].cfg] =
                      [prev |-> @.last, last |-> loops[t].tnow, need |-> loops[t].need]]
    /\ SyncStart(t, AttemptStamp(last_sync_time, loops[t].cfg, loops[t].tnow))
    /\ UNCHANGED <<now, http, directory, running, thread, ctl, budget, auth, pending,
                   accounts, upserting, policy>>

(* LDAPScheduler._check_and_sync as a function of the tick's inputs: the   *)
(* config read, the time read and the scheduler's last_sync_time.          *)
check_and_sync(cfgs, c, lst, t) ==
    IF TickSkips(cfgs, c)
    THEN [outcome |-> "skipped", last_sync_time |-> lst]
    ELSE IF DueNow(lst[c], cfgs[c].sync_interval, t)
    THEN [outcome |-> "sync", last_sync_time |-> AttemptStamp(lst, c, t)]
    ELSE [outcome |-> "waiting", last_sync_time |-> lst]

(* AsyncLDAPScheduler._check_and_sync, lines 209-231:                      *)
(* if not config or not config.enabled or not config.sync_enabled: return;  *)
(* sync_interval = max(config.sync_interval, 30);                           *)
(* if not last_sync or (now - last_sync).total_seconds() >= sync_interval:  *)
(* self.last_sync_time[config.id] = now, then sync_users in the executor.   *)
async_check_and_sync(cfgs, c, lst, t) ==
    IF c = None \/ ~cfgs[c].enabled \/ ~cfgs[c].sync_enabled
    THEN [outcome |-> "skipped", last_sync_time |-> lst]
    ELSE LET last_sync == lst[c]
             sync_interval == Max2(cfgs[c].sync_interval, MinInterval)
         IN  IF last_sync = None \/ t - last_sync >= sync_interval
             THEN [outcome |-> "sync", last_sync_time |-> [lst EXCEPT ![c] = t]]
             ELSE [outcome |-> "waiting", last_sync_time |-> lst]

(* What a scheduler has done after one more tick at time t, in which the   *)
(* store, holding the table cfgs, answered c: its last_sync_time, and the   *)
(* record of the tick.                                                      *)
Ticked(sched, cfgs, c, r, t) ==
    [last_sync_time |-> r.last_sync_time,
     at |-> t,
     ticks |-> Append(sched.ticks,
                  [t |-> t, store |-> cfgs, answer |-> c, outcome |-> r.outcome,
                   last_sync_time |-> r.last_sync_time])]

(* One tick of an LDAPScheduler on its loop thread (4), lines 66-88, after *)
(* the pass of its last tick returned and its sleep: the thread asks the    *)
(* store for the active config, reads the clock, stamps its own             *)
(* last_sync_time when a sync is due and calls sync_users of its own        *)
(* LDAPSyncService.                                                         *)
ThreadTick ==
    /\ policy.thread.at # now
    /\ ex[4].pc = "idle"
    /\ \E c \in get_active_config :
          LET r == check_and_sync(configs, c, policy.thread.last_sync_time, now)
          IN  /\ policy' = [policy EXCEPT !.thread = Ticked(@, configs, c, r, now)]
              /\ ex' = [ex EXCEPT ![4] = IF r.outcome = "sync" THEN Called(4) ELSE @]
    /\ UNCHANGED <<now, configs, http, rows, directory, running, thread,
                   last_sync_time, svc_config, loops, ctl, budget, passes,
                   triggers, auth, pending, accounts, upserting>>

(* One tick of an AsyncLDAPScheduler, lines 204-223: the task asks the     *)
(* store itself, reads the clock, stamps its own last_sync_time when a sync *)
(* is due and hands sync_users of its own LDAPSyncService to the executor   *)
(* (thread 5), whose return it awaits before its sleep.                     *)
AsyncTick ==
    /\ policy.async.at # now
    /\ ex[5].pc = "idle"
    /\ \E c \in get_active_config :
          LET r == async_check_and_sync(configs, c, policy.async.last_sync_time, now)
          IN  /\ policy' = [policy EXCEPT !.async = Ticked(@, configs, c, r, now)]
              /\ ex' = [ex EXCEPT ![5] = IF r.outcome = "sync" THEN Called(5) ELSE @]
    /\ UNCHANGED <<now, configs, http, rows, directory, running, thread,
                   last_sync_time, svc_config, loops, ctl, budget, passes,
                   triggers, auth, pending, accounts, upserting>>

(* time.sleep(10) is over. *)
LoopWake(t) ==
    /\ loops[t].pc = "sleep"
    /\ now >= loops[t].wake
    /\ loops' = [loops EXCEPT ![t] = [NoLoop EXCEPT !.pc = "top", !.boom = loops[t].boom]]
    /\ UNCHANGED <<now, configs, http, rows, directory, running, thread,
                   last_sync_time, svc_config, ex, ctl, budget, passes, triggers, auth, pending,
                   accounts, upserting, policy>>

(* Time passes. *)
Tick ==
    /\ now + TimeStep <= MaxTime
    /\ \A t \in Loops : /\ loops[t].pc \notin {"top", "armed"}
                        /\ loops[t].pc = "sleep" => now < loops[t].wake
    /\ ctl.pc = "join" => now < ctl.deadline
    /\ now' = now + TimeStep
    /\ UNCHANGED <<configs, http, rows, directory, running, thread, last_sync_time,
                   svc_config, loops, ex, ctl, budget, passes, triggers, auth, pending,
                   accounts, upserting, policy>>

-----------------------------------------------------------------------------
(* The directory server as the authentication flow sees it                 *)

(* A DN as a string; the empty string stands for None as well. *)
DnString(d) == IF d = "D" THEN <<"cn=", Uid[d], ",ou=new">> ELSE <<"cn=", Uid[d]>>
NoDN == <<>>
ServiceDN == DnString(ServiceEntry)
ServicePassword == Pw[ServiceEntry]

(* The service account exists on the server whether or not it lies under   *)
(* the search base.                                                         *)
ServerEntries == directory \cup {ServiceEntry}

(* The server accepts a simple bind with the entry's own password; an      *)
(* empty password is never accepted as that entry.                          *)
Accepts(dn, pw) ==
    /\ pw # ""
    /\ \E d \in ServerEntries : DnString(d) = dn /\ Pw[d] = pw

(* The entries under the search base an equality filter on the username    *)
(* attribute selects: those whose uid the filter names.                     *)
Matches(d, filter) == \E i \in DOMAIN filter : filter[i] = Uid[d]

FirstOf(S) ==
    CHOOSE d \in S : \A e \in S :
        (CHOOSE i \in DOMAIN DNOrder : DNOrder[i] = d) <=
        (CHOOSE i \in DOMAIN DNOrder : DNOrder[i] = e)

-----------------------------------------------------------------------------
(* LDAPConnectionManager.connect                                           *)

(* user_dn = bind_dn or self.config.bind_dn *)
BindIdentity(bind_dn) == IF bind_dn = NoDN THEN ServiceDN ELSE bind_dn

(* user_password = password or self.config.bind_password *)
BindPassword(password) == IF password = "" THEN ServicePassword ELSE password

(* True when the simple bind succeeds, False on any LDAPException. *)
connect(bind_dn, password, up) ==
    up /\ Accepts(BindIdentity(bind_dn), BindPassword(password))

-----------------------------------------------------------------------------
(* str.format on a string of tokens: "{}" takes the next positional        *)
(* argument (IndexError when there is none), "{username}" the keyword       *)
(* argument (KeyError when it is not given); the first error ends it.       *)

HasField(s, f) == \E i \in DOMAIN s : s[i] = f

RECURSIVE FormatFrom(_, _, _, _, _)
FormatFrom(s, i, auto, pos, kw) ==
    IF i > Len(s) THEN [ok |-> TRUE, str |-> <<>>]
    ELSE IF s[i] = "{}" /\ auto + 1 > Len(pos) THEN [ok |-> FALSE, str |-> <<>>]
    ELSE IF s[i] = "{username}" /\ kw = <<>> THEN [ok |-> FALSE, str |-> <<>>]
    ELSE LET rest == FormatFrom(s, i + 1, IF s[i] = "{}" THEN auto + 1 ELSE auto, pos, kw)
             piece == IF s[i] = "{}" THEN pos[auto + 1]
                      ELSE IF s[i] = "{username}" THEN kw[1]
                      ELSE s[i]
         IN  IF rest.ok THEN [ok |-> TRUE, str |-> <<piece>> \o rest.str]
             ELSE [ok |-> FALSE, str |-> <<>>]

format(s, pos, kw) == FormatFrom(s, 1, 0, pos, kw)

-----------------------------------------------------------------------------
(* LDAPAuthenticator                                                       *)

(* Lines 172-180: the filter of the search for the user. *)
UserFilter(search_filter, username) ==
    IF HasField(search_filter, "{}") THEN format(search_filter, <<username>>, <<>>)
    ELSE IF HasField(search_filter, "{username}") THEN format(search_filter, <<>>, <<username>>)
    ELSE [ok |-> TRUE, str |-> <<"(uid=", username, ")">>]

(* _find_user_dn: the DN, the searches it issued, and whether formatting   *)
(* raised (the exception leaves _find_user_dn). A search that raises        *)
(* LDAPException is logged and gives None.                                  *)
find_user_dn(cfg, username, searchOk) ==
    IF cfg.user_dn_template # NoTemplate
    THEN LET f == format(cfg.user_dn_template, <<>>, <<username>>)
         IN  [raised |-> ~f.ok, dn |-> f.str, searches |-> <<>>]
    ELSE LET f == UserFilter(cfg.search_filter, username)
             found == {d \in directory : Matches(d, f.str)}
         IN  IF ~f.ok THEN [raised |-> TRUE, dn |-> NoDN, searches |-> <<>>]
             ELSE [raised |-> FALSE,
                   dn |-> IF searchOk /\ found # {} THEN DnString(FirstOf(found)) ELSE NoDN,
                   searches |-> <<f.str>>]

NoProfile == [entry |-> "", dn |-> NoDN, username |-> ""]

(* _get_user_info: the BASE search at the DN; None when it raises or the   *)
(* entry is not there.                                                      *)
get_user_info(user_dn, readOk) ==
    LET at == {d \in ServerEntries : DnString(d) = user_dn}
    IN  IF readOk /\ at # {}
        THEN [entry |-> FirstOf(at), dn |-> user_dn, username |-> Uid[FirstOf(at)]]
        ELSE NoProfile


(* The config object authenticate_user works with. *)
AuthConfig(c) ==
    IF c = None THEN [user_dn_template |-> NoTemplate, search_filter |-> EnumFilter,
      auto_create_user |-> FALSE]
    ELSE [user_dn_template |-> configs[c].user_dn_template,
          search_filter |-> configs[c].search_filter]

AuthPreconditionFails_Skipped(c) == FALSE

(* if not config or not config.enabled: return False, None *)
AuthPreconditionFails(c) == c = None \/ ~configs[c].enabled

Caught_LdapOnly(exc) == exc = "LDAPException"

(* The except clauses of authenticate_user: LDAPInvalidCredentialsError,   *)
(* LDAPException, Exception; the last takes the ConnectionError of          *)
(* __enter__ and the IndexError or KeyError (both LookupError) of format.   *)
Caught(exc) == exc \in {"LDAPException", "ConnectionError", "LookupError"}

NotFound_Ignored(r) == FALSE

(* if not user_dn: return False, None (lines 134-136) *)
NotFound(r) == r.dn = NoDN

NoResolve == [raised |-> FALSE, dn |-> NoDN, searches |-> <<>>]

(* authenticate_user on a fresh LDAPAuthenticator whose get_config got c:  *)
(* the result, what _find_user_dn did, and the directory operations in      *)
(* order. net says which of the network operations go through.              *)
authenticate_user(c, username, password, net) ==
    LET cfg == AuthConfig(c)
        Out(ok, profile, resolve, events, exc) ==
            [ok |-> ok, profile |-> profile, resolve |-> resolve, events |-> events,
             escaped |-> exc # "none" /\ ~Caught(exc)]
        svc1 == connect(NoDN, "", net.up1)
        e1 == <<Ev("bind", ServiceDN, ServicePassword, svc1)>>
        r == find_user_dn(cfg, username, net.searchOk)
        e2 == e1 \o [i \in DOMAIN r.searches |-> Ev("search", r.searches[i], "", net.searchOk)]
                 \o disconnect(ServiceDN)
        userOk == connect(r.dn, password, TRUE)
        e3 == e2 \o <<Ev("bind", BindIdentity(r.dn), BindPassword(password), userOk)>>
        svc2 == connect(NoDN, "", net.up2)
        e4 == e3 \o <<Ev("bind", ServiceDN, ServicePassword, svc2)>>
        info == get_user_info(r.dn, net.readOk)
        e5 == e4 \o <<Ev("read", r.dn, "", info # NoProfile)>> \o disconnect(ServiceDN)
        userOff == disconnect(BindIdentity(r.dn))
    IN  IF AuthPreconditionFails(c) THEN Out(FALSE, NoProfile, NoResolve, <<>>, "none")
        ELSE IF ~svc1 THEN Out(FALSE, NoProfile, NoResolve, e1, "ConnectionError")
        ELSE IF r.raised THEN Out(FALSE, NoProfile, r, e2, "LookupError")
        ELSE IF NotFound(r) THEN Out(FALSE, NoProfile, r, e2, "none")
        ELSE IF ~userOk THEN Out(FALSE, NoProfile, r, e3, "none")
        ELSE IF ~svc2 THEN Out(FALSE, NoProfile, r, e4 \o userOff, "ConnectionError")
        ELSE IF info = NoProfile THEN Out(FALSE, NoProfile, r, e5 \o userOff, "none")
        ELSE Out(TRUE, info, r, e5 \o userOff, "none")

AuthenticateUser_Recording(username, password, net) ==
    /\ budget.logins > 0
    /\ budget' = [budget EXCEPT !.logins = @ - 1]
    /\ \E c \in get_active_config :
         LET out == authenticate_user(c, username, password, net)
         IN  /\ auth' = [called |-> TRUE, pc |-> "idle", username |-> username,
                         password |-> password,
                         cfg |-> c, active |-> ActiveIds, out |-> out]
             /\ configs' = IF c # None /\ ~out.ok
                           THEN update_sync_status(configs, c, "error", None, FALSE)
                           ELSE configs
    /\ UNCHANGED <<now, http, rows, directory, running, thread, last_sync_time,
                   svc_config, loops, ex, ctl, passes, triggers, pending,
                   accounts, upserting, policy>>

(* LDAPAuthenticator.authenticate_user called on a new authenticator: the  *)
(* config is read, the directory is asked, the answer is returned; no       *)
(* statement of it writes to a store.                                       *)
AuthenticateUser(username, password, net) ==
    /\ budget.logins > 0
    /\ budget' = [budget EXCEPT !.logins = @ - 1]
    /\ \E c \in get_active_config :
         auth' = [called |-> TRUE, pc |-> "idle", username |-> username,
                  password |-> password, cfg |-> c, active |-> ActiveIds,
                  out |-> authenticate_user(c, username, password, net)]
    /\ UNCHANGED <<now, configs, http, rows, directory, running, thread, last_sync_time,
                   svc_config, loops, ex, ctl, passes, triggers, pending,
                   accounts, upserting, policy>>

(* ldap_login (POST /login), lines 67-104: a new LDAPAuthenticator per     *)
(* request and its authenticate_user; a failed authentication is answered   *)
(* at once. The handler's emptiness test is on the encrypted password, so   *)
(* the decrypted password may be empty.                                     *)
LdapLogin(username, password, net) ==
    /\ auth.pc = "idle"
    /\ budget.logins > 0
    /\ budget' = [budget EXCEPT !.logins = @ - 1]
    /\ \E c \in get_active_config :
         LET out == authenticate_user(c, username, password, net)
         IN  auth' = [called |-> TRUE, pc |-> IF out.ok THEN "config" ELSE "idle",
                      username |-> username, password |-> password,
                      cfg |-> c, active |-> ActiveIds, out |-> out,
                      code |-> IF out.ok THEN "none" ELSE "auth_error",
                      cfg2 |-> None, auto |-> FALSE, existing |-> None,
                      user |-> None, linked |-> None]
    /\ UNCHANGED <<now, configs, http, rows, directory, running, thread, last_sync_time,
                   svc_config, loops, ex, ctl, passes, triggers, pending,
                   accounts, upserting, policy>>

(* Lines 107-113: the handler asks the store for the active config again;  *)
(* none gives the server error 'LDAP configuration not found!'.             *)
LoginConfig ==
    /\ auth.pc = "config"
    /\ \E c \in get_active_config :
         auth' = IF c = None
                 THEN [auth EXCEPT !.pc = "idle", !.code = "server_error"]
                 ELSE [auth EXCEPT !.pc = "lookup", !.cfg2 = c,
                                   !.auto = configs[c].auto_create_user]
    /\ UNCHANGED <<now, configs, http, rows, directory, running, thread, last_sync_time,
                   svc_config, loops, ex, ctl, budget, passes, triggers, pending,
                   accounts, upserting, policy>>

(* Line 115 and ldap_service lines 147-155: the lookup of                  *)
(* create_or_update_user(config.id, ldap_user_info).                        *)
LoginLookup ==
    /\ auth.pc = "lookup"
    /\ auth' = [auth EXCEPT !.pc = "write",
                            !.existing = LookupExisting(rows, auth.cfg2,
                                                        auth.out.profile.entry)]
    /\ UNCHANGED <<now, configs, http, rows, directory, running, thread, last_sync_time,
                   svc_config, loops, ex, ctl, budget, passes, triggers, pending,
                   accounts, upserting, policy>>

(* ldap_service lines 157-208 and lines 119-124: the write of              *)
(* create_or_update_user; no record gives the server error 'Failed to       *)
(* create LDAP user record!'.                                               *)
LoginWrite(fail) ==
    /\ auth.pc = "write"
    /\ LET r == write_user(rows, auth.cfg2, auth.out.profile.entry, auth.existing, fail)
       IN  /\ rows' = r.rows
           /\ auth' = IF r.user = None
                      THEN [auth EXCEPT !.pc = "idle", !.code = "server_error"]
                      ELSE [auth EXCEPT !.pc = "touch", !.user = r.user,
                                        !.linked = r.rows[r.user].user_id]
    /\ UNCHANGED <<now, configs, http, directory, running, thread, last_sync_time,
                   svc_config, loops, ex, ctl, budget, passes, triggers, pending,
                   accounts, upserting, policy>>

(* Lines 127-134 and 156-161: update_login_time(ldap_user.id); a record    *)
(* the write returned linked goes on to the query for its account, one      *)
(* linked to no account gets one when the config read at line 107 has       *)
(* auto_create_user, and otherwise the answer is 'User account not found or *)
(* disabled!'.                                                              *)
LoginTouch ==
    /\ auth.pc = "touch"
    /\ rows' = update_login_time(rows, auth.user)
    /\ auth' = IF auth.linked # None THEN [auth EXCEPT !.pc = "account"]
               ELSE IF auth.auto THEN [auth EXCEPT !.pc = "save"]
               ELSE [auth EXCEPT !.pc = "idle", !.code = "auth_error"]
    /\ UNCHANGED <<now, configs, http, directory, running, thread, last_sync_time,
                   svc_config, loops, ex, ctl, budget, passes, triggers, pending,
                   accounts, upserting, policy>>

(* Lines 132-134: UserService.query(id=ldap_user.user_id); the account     *)
(* found is logged in.                                                      *)
LoginAccount ==
    /\ auth.pc = "account"
    /\ auth' = IF auth.linked \in DOMAIN accounts
               THEN [auth EXCEPT !.pc = "idle", !.code = "ok"]
               ELSE IF auth.auto THEN [auth EXCEPT !.pc = "save"]
               ELSE [auth EXCEPT !.pc = "idle", !.code = "auth_error"]
    /\ UNCHANGED <<now, configs, http, rows, directory, running, thread, last_sync_time,
                   svc_config, loops, ex, ctl, budget, passes, triggers, pending,
                   accounts, upserting, policy>>

(* Lines 136-149: the account is saved with the profile's email or         *)
(* f"{username}@ldap.local"; when save hands back no object the link        *)
(* raises and the answer is a server error.                                 *)
LoginSave(res) ==
    /\ auth.pc = "save"
    /\ accounts' = Append(accounts, NewAccount(UserData(auth.out.profile.entry).email,
                                               auth.username))
    /\ auth' = IF res = "object"
               THEN [auth EXCEPT !.pc = "link", !.linked = Len(accounts) + 1]
               ELSE [auth EXCEPT !.pc = "idle", !.code = "server_error"]
    /\ UNCHANGED <<now, configs, http, rows, directory, running, thread, last_sync_time,
                   svc_config, loops, ex, ctl, budget, passes, triggers, pending,
                   upserting, policy>>

(* Lines 150-155 and 164-176: the UPDATE that links the record to the      *)
(* account, and the login of the account.                                   *)
LoginLink ==
    /\ auth.pc = "link"
    /\ rows' = link_user(rows, auth.user, auth.linked)
    /\ auth' = [auth EXCEPT !.pc = "idle", !.code = "ok"]
    /\ UNCHANGED <<now, configs, http, directory, running, thread, last_sync_time,
                   svc_config, loops, ex, ctl, budget, passes, triggers, pending,
                   accounts, upserting, policy>>

-----------------------------------------------------------------------------
(* Initial states and specifications                                       *)

NoRequest == [admin |-> FALSE, enabled |-> FALSE, sync_enabled |-> FALSE,
              sync_interval |-> None, user_dn_template |-> NoTemplate,
              search_filter |-> EnumFilter,
      auto_create_user |-> FALSE]
NoAuth == [called |-> FALSE, pc |-> "idle"]

(* The request threads that run create_or_update_config side by side. *)
Handlers == {1, 2}
NoPending == [pc |-> "idle", req |-> NoRequest, seen |-> None]

StoredConfig(interval, sync) ==
    [enabled |-> TRUE, sync_enabled |-> sync, sync_interval |-> interval,
     sync_status |-> "idle", last_sync_time |-> None,
     user_dn_template |-> NoTemplate, search_filter |-> EnumFilter,
      auto_create_user |-> FALSE]

(* The threads that call create_or_update_user, and a call not under way. *)
Upserters == {1, 2}
NoUpsert == [pc |-> "idle", cfg |-> None, dn |-> NoValue, existing |-> None,
             result |-> "none", calls |-> 0]

(* Both schedulers after __init__: last_sync_time = {}, no tick yet. *)
NoPolicy ==
    LET fresh == [last_sync_time |-> [c \in 1..MaxConfigs |-> None],
                  at |-> None, ticks |-> <<>>]
    IN  [thread |-> fresh, async |-> fresh]

(* Configuration requests handled side by side: each handler is two steps, *)
(* the lookup of the active config and the write that follows it; nothing   *)
(* in the handler or the store keeps another handler from running between.  *)

(* create_or_update_config up to LDAPConfigService.get_active_config(),    *)
(* lines 224-303: the checks, then the lookup.                              *)
ConfigLookup(h, req) ==
    /\ pending[h].pc = "idle"
    /\ budget.requests > 0
    /\ budget' = [budget EXCEPT !.requests = @ - 1]
    /\ IF ~req.admin
       THEN /\ http' = [req |-> req, code |-> "auth_error"]
            /\ UNCHANGED pending
       ELSE IF IntervalRejected(req)
       THEN /\ http' = [req |-> req, code |-> "data_error"]
            /\ UNCHANGED pending
       ELSE /\ \E c \in get_active_config :
                 pending' = [pending EXCEPT ![h] = [pc |-> "write", req |-> req, seen |-> c]]
            /\ UNCHANGED http
    /\ UNCHANGED <<now, configs, rows, directory, running, thread, last_sync_time,
                   svc_config, loops, ex, ctl, passes, triggers, auth,
                   accounts, upserting, policy>>

(* Lines 305-319: update_config of the config the lookup returned, or      *)
(* create_config when it returned none, and the answer. The table holds at  *)
(* most MaxConfigs rows: a create waits while it is full.                   *)
ConfigWrite(h) ==
    /\ pending[h].pc = "write"
    /\ LET req == pending[h].req
           c == pending[h].seen
       IN  IF c # None
           THEN /\ configs' = update_config(configs, c, req)
                /\ http' = [req |-> req, code |-> "updated"]
           ELSE /\ Len(configs) < MaxConfigs
                /\ configs' = create_config(configs, req)
                /\ http' = [req |-> req, code |-> "created"]
    /\ pending' = [pending EXCEPT ![h] = NoPending]
    /\ UNCHANGED <<now, rows, directory, running, thread, last_sync_time,
                   svc_config, loops, ex, ctl, budget, passes, triggers, auth,
                   accounts, upserting, policy>>

(* The program after construction, whatever the clock shows. *)
InitState ==
    /\ http = [req |-> NoRequest, code |-> "none"]
    /\ running = FALSE
    /\ thread = 0
    /\ last_sync_time = [c \in 1..MaxConfigs |-> None]
    /\ svc_config = [s \in 1..3 |-> NoConfig]
    /\ loops = [t \in Loops |-> NoLoop]
    /\ ex = [p \in Procs |-> IdleEx]
    /\ ctl = [pc |-> "idle", deadline |-> None]
    /\ passes = <<>>
    /\ triggers = [c \in 1..MaxConfigs |-> [prev |-> None, last |-> None, need |-> None]]
    /\ auth = NoAuth
    /\ pending = [h \in Handlers |-> NoPending]
    /\ upserting = [h \in Upserters |-> NoUpsert]
    /\ policy = NoPolicy

InitBase == now = 0 /\ InitState

InitCommon == InitBase /\ rows = <<>> /\ accounts = <<>>

(* Reconciliation: forced syncs from a request thread over a directory      *)
(* that changes, with an administrator switching the configuration.        *)
SyncRequests ==
    {[admin |-> TRUE, enabled |-> e, sync_enabled |-> s, sync_interval |-> None,
      user_dn_template |-> NoTemplate, search_filter |-> EnumFilter,
      auto_create_user |-> FALSE]
        : e \in BOOLEAN, s \in BOOLEAN}

(* The contents the directory takes. *)
Directories == {{}, {"A"}, {"A", "B"}, {"A", "C"}}

InitSync ==
    /\ InitCommon
    /\ configs = <<StoredConfig(30, TRUE)>>
    /\ directory = {"A", "B"}
    /\ budget = [force |-> MaxForce, requests |-> MaxRequests, dirchg |-> MaxDirChanges,
                 starts |-> 0, stops |-> 0, logins |-> 0, keep |-> 2, faults |-> {}]

NextSync ==
    \/ \E p \in Forcers : ForceSync(p)
    \/ \E p \in Loops \cup Forcers : SyncQuery(p)
    \/ \E p \in Loops \cup Forcers : SyncAssign(p)
    \/ \E p \in Loops \cup Forcers : SyncBegin(p)
    \/ \E p \in Loops \cup Forcers : SyncRunning(p)
    \/ \E p \in Loops \cup Forcers, connOk \in BOOLEAN : SyncConnect(p, connOk)
    \/ \E p \in Loops \cup Forcers : SyncUsers(p)
    \/ \E p \in Loops \cup Forcers, searchOk \in BOOLEAN : SyncSearch(p, searchOk)
    \/ \E p \in Loops \cup Forcers : SyncLookup(p)
    \/ \E p \in Loops \cup Forcers, fail \in BOOLEAN : SyncWrite(p, fail)
    \/ \E p \in Loops \cup Forcers : SyncFinish(p, FALSE)
    \/ \E p \in Loops \cup Forcers : SyncComplete(p)
    \/ \E p \in Forcers : ForceLookup(p)
    \/ \E p \in Forcers : ForceRecord(p)
    \/ \E d \in Directories : DirChange(d)
    \/ \E h \in Handlers, req \in SyncRequests : ConfigLookup(h, req)
    \/ \E h \in Handlers : ConfigWrite(h)

SpecSync == InitSync /\ [][NextSync]_vars

(* The scheduler: its clock, its background loop started, one request      *)
(* thread forcing syncs, an administrator posting configurations; the       *)
(* stored interval may be below the floor (written out of band).            *)
SchedRequests ==
    {[admin |-> TRUE, enabled |-> r[1], sync_enabled |-> r[2], sync_interval |-> r[3],
      user_dn_template |-> NoTemplate, search_filter |-> EnumFilter,
      auto_create_user |-> FALSE]
        : r \in {<<TRUE, TRUE, 40>>, <<TRUE, TRUE, 10>>, <<TRUE, FALSE, None>>,
                 <<FALSE, FALSE, None>>}}

Init ==
    /\ InitCommon
    /\ configs \in {<<StoredConfig(10, TRUE)>>}
    /\ directory = {"A"}
    /\ budget = [force |-> MaxSchedForce, requests |-> MaxRequests, dirchg |-> 0,
                 starts |-> 1, stops |-> 0, logins |-> 0, keep |-> 1, faults |-> {}]

Next ==
    \/ Start
    \/ Tick
    \/ \E t \in Loops : LoopCheck(t, FALSE)
    \/ \E t \in Loops : LoopTrigger(t)
    \/ \E t \in Loops : LoopWake(t)
    \/ \E p \in Forcers : ForceSync(p)
    \/ \E p \in Loops \cup Forcers : SyncQuery(p)
    \/ \E p \in Loops \cup Forcers : SyncAssign(p)
    \/ \E p \in Loops \cup Forcers : SyncBegin(p)
    \/ \E p \in Loops \cup Forcers : SyncRunning(p)
    \/ \E p \in Loops \cup Forcers, connOk \in BOOLEAN : SyncConnect(p, connOk)
    \/ \E p \in Loops \cup Forcers : SyncUsers(p)
    \/ \E p \in Loops \cup Forcers : SyncSearch(p, TRUE)
    \/ \E p \in Loops \cup Forcers : SyncLookup(p)
    \/ \E p \in Loops \cup Forcers : SyncWrite(p, FALSE)
    \/ \E p \in Loops \cup Forcers : SyncFinish(p, FALSE)
    \/ \E p \in Loops \cup Forcers : SyncComplete(p)
    \/ \E p \in Forcers : ForceLookup(p)
    \/ \E p \in Forcers : ForceRecord(p)
    \/ \E req \in {r \in SchedRequests : r.sync_interval = 40 \/ ~r.enabled} :
             ConfigLookup(1, req)
    \/ ConfigWrite(1)

Spec == Init /\ [][Next]_vars

(* The ticks of one background loop over a config store that starts empty, *)
(* disabled, sync-disabled or enabled and that an administrator changes.    *)
InitTicks ==
    /\ InitCommon
    /\ configs \in {<<>>, <<StoredConfig(30, TRUE)>>, <<StoredConfig(30, FALSE)>>,
                     <<[StoredConfig(30, TRUE) EXCEPT !.enabled = FALSE]>>}
    /\ directory = {"A"}
    /\ budget = [force |-> 0, requests |-> MaxRequests, dirchg |-> 0, starts |-> 1,
                 stops |-> 0, logins |-> 0, keep |-> 0, faults |-> {"read", "status"}]

NextTicks ==
    \/ Start
    \/ Tick
    \/ \E t \in Loops : LoopCheck(t, FALSE)
    \/ \E t \in Loops : LoopTrigger(t)
    \/ \E t \in Loops : LoopWake(t)
    \/ \E t \in Loops : SyncQuery(t)
    \/ \E t \in Loops : SyncAssign(t)
    \/ \E t \in Loops : SyncBegin(t)
    \/ \E t \in Loops : SyncRunning(t)
    \/ \E t \in Loops, connOk \in BOOLEAN : SyncConnect(t, connOk)
    \/ \E t \in Loops : SyncUsers(t)
    \/ \E t \in Loops : SyncSearch(t, TRUE)
    \/ \E t \in Loops : SyncLookup(t)
    \/ \E t \in Loops : SyncWrite(t, FALSE)
    \/ \E t \in Loops : SyncFinish(t, FALSE)
    \/ \E t \in Loops : SyncComplete(t)
    \/ \E h \in Handlers, req \in SchedRequests : ConfigLookup(h, req)
    \/ \E h \in Handlers : ConfigWrite(h)

SpecTicks == InitTicks /\ [][NextTicks]_vars

(* The trigger policy: a thread-based and an event-loop-based scheduler,   *)
(* each ticking on its own thread, over a config store that administrators  *)
(* change, also side by side.                                               *)
InitPolicy ==
    /\ InitState
    /\ now = MaxTime - TimeStep
    /\ rows = <<>>
    /\ accounts = <<>>
    /\ configs = <<>>
    /\ directory = {"A"}
    /\ budget = [force |-> 0, requests |-> MaxConfigRequests, dirchg |-> 0,
                 starts |-> 0, stops |-> 0, logins |-> 0, keep |-> 0, faults |-> {}]

NextPolicy ==
    \/ ThreadTick
    \/ AsyncTick
    \/ Tick
    \/ \E p \in PolicyProcs : SyncQuery(p)
    \/ \E p \in PolicyProcs : SyncAssign(p)
    \/ \E p \in PolicyProcs : SyncBegin(p)
    \/ \E p \in PolicyProcs : SyncRunning(p)
    \/ \E p \in PolicyProcs : SyncConnect(p, TRUE)
    \/ \E p \in PolicyProcs : SyncUsers(p)
    \/ \E p \in PolicyProcs : SyncSearch(p, TRUE)
    \/ \E p \in PolicyProcs : SyncLookup(p)
    \/ \E p \in PolicyProcs : SyncWrite(p, FALSE)
    \/ \E p \in PolicyProcs : SyncFinish(p, FALSE)
    \/ \E p \in PolicyProcs : SyncComplete(p)
    \/ \E h \in Handlers, req \in {r \in SchedRequests : r.sync_interval = 40} :
             ConfigLookup(h, req)
    \/ \E h \in Handlers : ConfigWrite(h)

SpecPolicy == InitPolicy /\ [][NextPolicy]_vars

(* The background loop alone: start and stop at any time, ticks in which   *)
(* an exception is raised, syncs whose connection fails. Every thread that  *)
(* can take a step eventually takes it, and time goes on.                   *)
InitLoop ==
    /\ InitCommon
    /\ configs = <<StoredConfig(10, TRUE)>>
    /\ directory = {"A"}
    /\ budget = [force |-> 0, requests |-> 0, dirchg |-> 0, starts |-> MaxStarts,
                 stops |-> MaxLoopStops, logins |-> 0, keep |-> 0, faults |-> {"read", "status"}]

NextLoop ==
    \/ Start
    \/ Stop
    \/ StopReturn
    \/ Tick
    \/ \E t \in Loops, boom \in BOOLEAN : LoopCheck(t, boom)
    \/ \E t \in Loops : LoopTrigger(t)
    \/ \E t \in Loops : LoopWake(t)
    \/ \E t \in Loops : SyncQuery(t)
    \/ \E t \in Loops : SyncAssign(t)
    \/ \E t \in Loops : SyncBegin(t)
    \/ \E t \in Loops : SyncRunning(t)
    \/ \E t \in Loops, connOk \in BOOLEAN : SyncConnect(t, connOk)
    \/ \E t \in Loops : SyncUsers(t)
    \/ \E t \in Loops : SyncSearch(t, TRUE)
    \/ \E t \in Loops : SyncLookup(t)
    \/ \E t \in Loops : SyncWrite(t, FALSE)
    \/ \E t \in Loops : SyncFinish(t, FALSE)
    \/ \E t \in Loops : SyncComplete(t)

FairLoop ==
    /\ WF_vars(Tick)
    /\ WF_vars(StopReturn)
    /\ \A t \in Loops :
          /\ WF_vars(\E boom \in BOOLEAN : LoopCheck(t, boom))
          /\ WF_vars(LoopTrigger(t))
          /\ WF_vars(LoopWake(t))
          /\ WF_vars(\E connOk \in BOOLEAN : SyncConnect(t, connOk))
          /\ WF_vars(SyncUsers(t))
          /\ WF_vars(SyncSearch(t, TRUE))
          /\ WF_vars(SyncQuery(t))
          /\ WF_vars(SyncAssign(t))
          /\ WF_vars(SyncBegin(t))
          /\ WF_vars(SyncRunning(t))
          /\ WF_vars(SyncLookup(t))
          /\ WF_vars(SyncWrite(t, FALSE))
          /\ WF_vars(SyncFinish(t, FALSE))
          /\ WF_vars(SyncComplete(t))

SpecLoop == InitLoop /\ [][NextLoop]_vars /\ FairLoop

(* The mirror: forced passes over a directory that changes, with the       *)
(* connection, the search, single upserts and the staleness update failing. *)
MirrorDirectories == {{"A"}, {"A", "B"}, {"B", "D"}}

InitMirror ==
    /\ InitCommon
    /\ configs = <<StoredConfig(30, TRUE)>>
    /\ directory = {"A", "B"}
    /\ budget = [force |-> MaxMirrorSyncs, requests |-> 0, dirchg |-> MaxDirChanges,
                 starts |-> 0, stops |-> 0, logins |-> 0, keep |-> 1, faults |-> {"read", "status"}]

NextMirror ==
    \/ \E p \in Forcers : ForceSync(p)
    \/ \E p \in Forcers : SyncQuery(p)
    \/ \E p \in Forcers : SyncAssign(p)
    \/ \E p \in Forcers : SyncBegin(p)
    \/ \E p \in Forcers : SyncRunning(p)
    \/ \E p \in Forcers, connOk \in BOOLEAN : SyncConnect(p, connOk)
    \/ \E p \in Forcers : SyncUsers(p)
    \/ \E p \in Forcers, searchOk \in BOOLEAN : SyncSearch(p, searchOk)
    \/ \E p \in Forcers : SyncLookup(p)
    \/ \E p \in Forcers, fail \in BOOLEAN : SyncWrite(p, fail)
    \/ \E p \in Forcers, staleFail \in BOOLEAN : SyncFinish(p, staleFail)
    \/ \E p \in Forcers : SyncComplete(p)
    \/ \E p \in Forcers : ForceLookup(p)
    \/ \E p \in Forcers : ForceRecord(p)
    \/ \E d \in MirrorDirectories : DirChange(d)

SpecMirror == InitMirror /\ [][NextMirror]_vars

(* An administrator's request that sets the status of a directory user     *)
(* (ldap_app line 508).                                                     *)
SetUserStatus(user_id, is_active) ==
    /\ budget.requests > 0
    /\ budget' = [budget EXCEPT !.requests = @ - 1]
    /\ user_id \in DOMAIN rows
    /\ rows' = set_user_status(rows, user_id, is_active)
    /\ UNCHANGED <<now, configs, http, directory, running, thread, last_sync_time,
                   svc_config, loops, ex, ctl, passes, triggers, auth, pending,
                   accounts, upserting, policy>>

(* Reactivation: forced passes over a directory that changes, with upserts  *)
(* failing, while an administrator deactivates and activates records and    *)
(* purges the stale ones of a retention window; the table starts with a     *)
(* record that went stale forty days ago.                                   *)
RetentionDays == {30, 60}

InitReactivate ==
    /\ InitBase
    /\ accounts = <<>>
    /\ rows = <<StoredUser(1, "D", "stale", None, 0 - 40 * Day)>>
    /\ configs = <<StoredConfig(30, TRUE)>>
    /\ directory = {"A", "B"}
    /\ budget = [force |-> MaxForce, requests |-> MaxRequests,
                 dirchg |-> MaxDirChanges, starts |-> 0, stops |-> 0, logins |-> 0,
                 keep |-> 1, faults |-> {}]

NextReactivate ==
    \/ \E p \in Forcers : ForceSync(p)
    \/ \E p \in Forcers : SyncQuery(p)
    \/ \E p \in Forcers : SyncAssign(p)
    \/ \E p \in Forcers : SyncBegin(p)
    \/ \E p \in Forcers : SyncRunning(p)
    \/ \E p \in Forcers, connOk \in BOOLEAN : SyncConnect(p, connOk)
    \/ \E p \in Forcers : SyncUsers(p)
    \/ \E p \in Forcers, searchOk \in BOOLEAN : SyncSearch(p, searchOk)
    \/ \E p \in Forcers : SyncLookup(p)
    \/ \E p \in Forcers, fail \in BOOLEAN : SyncWrite(p, fail)
    \/ \E p \in Forcers : SyncFinish(p, FALSE)
    \/ \E p \in Forcers : SyncComplete(p)
    \/ \E p \in Forcers : ForceLookup(p)
    \/ \E p \in Forcers : ForceRecord(p)
    \/ \E d \in MirrorDirectories : DirChange(d)
    \/ \E k \in 1..MaxRows, a \in BOOLEAN : SetUserStatus(k, a)
    \/ \E days \in RetentionDays : CleanupStaleUsers(1, days)

SpecReactivate == InitReactivate /\ [][NextReactivate]_vars

(* Provisioning: forced passes and the pass of the background loop's first  *)
(* tick over a changing directory while an administrator switches           *)
(* auto_create_user, with or without a local account that has the email of  *)
(* an entry.                                                                *)
ProvisionRequests ==
    {[admin |-> TRUE, enabled |-> TRUE, sync_enabled |-> TRUE, sync_interval |-> None,
      user_dn_template |-> NoTemplate, search_filter |-> EnumFilter,
      auto_create_user |-> a] : a \in BOOLEAN}

ProvisionDirectories == {{"A", "B"}, {"A", "C"}, {"B", "D"}}

InitProvision ==
    /\ InitBase
    /\ rows = <<>>
    /\ accounts \in {<<>>, <<[email |-> "a@x", login_channel |-> "password"]>>}
    /\ configs \in {<<[StoredConfig(30, TRUE) EXCEPT !.auto_create_user = a]>> :
                        a \in BOOLEAN}
    /\ directory = {"A", "B"}
    /\ budget = [force |-> MaxSchedForce, requests |-> MaxRequests,
                 dirchg |-> MaxDirChanges, starts |-> 1, stops |-> 0, logins |-> 0,
                 keep |-> 0, faults |-> {}]

NextProvision ==
    \/ Start
    \/ \E t \in Loops : LoopCheck(t, FALSE)
    \/ \E t \in Loops : LoopTrigger(t)
    \/ \E p \in Forcers : ForceSync(p)
    \/ \E p \in Loops \cup Forcers : SyncQuery(p)
    \/ \E p \in Loops \cup Forcers : SyncAssign(p)
    \/ \E p \in Loops \cup Forcers : SyncBegin(p)
    \/ \E p \in Loops \cup Forcers : SyncRunning(p)
    \/ \E p \in Loops \cup Forcers : SyncConnect(p, TRUE)
    \/ \E p \in Loops \cup Forcers : SyncUsers(p)
    \/ \E p \in Loops \cup Forcers : SyncSearch(p, TRUE)
    \/ \E p \in Loops \cup Forcers : SyncLookup(p)
    \/ \E p \in Loops \cup Forcers : SyncWrite(p, FALSE)
    \/ \E p \in Loops \cup Forcers : SyncHookQuery(p)
    \/ \E p \in Loops \cup Forcers, res \in SaveResults : SyncHookSave(p, res)
    \/ \E p \in Loops \cup Forcers : SyncHookLink(p)
    \/ \E p \in Loops \cup Forcers : SyncFinish(p, FALSE)
    \/ \E p \in Loops \cup Forcers : SyncComplete(p)
    \/ \E p \in Forcers : ForceLookup(p)
    \/ \E p \in Forcers : ForceRecord(p)
    \/ \E d \in ProvisionDirectories : DirChange(d)
    \/ \E req \in ProvisionRequests : ConfigLookup(1, req)
    \/ ConfigWrite(1)

SpecProvision == InitProvision /\ [][NextProvision]_vars

(* Upserts side by side: the sync pass's thread and a login request's      *)
(* thread each call create_or_update_user for entries of the directory; a   *)
(* call is two steps, the lookup and the write that follows it, and nothing *)
(* in the service keeps the other thread from running between them.         *)

(* create_or_update_user up to the lookup, lines 147-155. *)
UpsertLookup(h, dn) ==
    /\ upserting[h].pc = "idle"
    /\ upserting[h].calls < MaxUpserts
    /\ dn \in directory
    /\ \E c \in get_active_config :
         /\ c # None
         /\ upserting' = [upserting EXCEPT ![h] =
                            [pc |-> "write", cfg |-> c, dn |-> dn,
                             existing |-> LookupExisting(rows, c, dn),
                             result |-> "none", calls |-> @.calls + 1]]
    /\ UNCHANGED <<now, configs, http, rows, directory, running, thread, last_sync_time,
                   svc_config, loops, ex, ctl, budget, passes, triggers, auth, pending,
                   accounts, policy>>

(* Lines 157-208: the update of the row the lookup found, or the creation   *)
(* of a new one.                                                            *)
UpsertWrite(h, fail) ==
    /\ upserting[h].pc = "write"
    /\ LET u == upserting[h]
           r == write_user(rows, u.cfg, u.dn, u.existing, fail)
       IN  /\ rows' = r.rows
           /\ upserting' = [upserting EXCEPT ![h] =
                              [@ EXCEPT !.pc = "idle",
                                        !.result = IF r.user = None THEN "failed"
                                                   ELSE IF r.created THEN "created"
                                                   ELSE "updated"]]
    /\ UNCHANGED <<now, configs, http, directory, running, thread, last_sync_time,
                   svc_config, loops, ex, ctl, budget, passes, triggers, auth, pending,
                   accounts, policy>>

(* mark_stale_users at the end of a pass that observed the DNs active_dns. *)
UpsertSweep(active_dns) ==
    /\ budget.force > 0
    /\ budget' = [budget EXCEPT !.force = @ - 1]
    /\ \E c \in get_active_config :
         /\ c # None
         /\ rows' = mark_stale_users(rows, c, active_dns, FALSE).rows
    /\ UNCHANGED <<now, configs, http, directory, running, thread, last_sync_time,
                   svc_config, loops, ex, ctl, passes, triggers, auth, pending,
                   accounts, upserting, policy>>

InitUpsertRace ==
    /\ InitCommon
    /\ configs = <<StoredConfig(30, TRUE)>>
    /\ directory = {"A", "B"}
    /\ budget = [force |-> 1, requests |-> 0, dirchg |-> MaxDirChanges, starts |-> 0,
                 stops |-> 0, logins |-> 0, keep |-> 0, faults |-> {}]

NextUpsertRace ==
    \/ \E h \in Upserters, dn \in DNs : UpsertLookup(h, dn)
    \/ \E h \in Upserters, fail \in BOOLEAN : UpsertWrite(h, fail)
    \/ \E active_dns \in SUBSET directory : UpsertSweep(active_dns)
    \/ \E d \in MirrorDirectories : DirChange(d)

SpecUpsertRace == InitUpsertRace /\ [][NextUpsertRace]_vars

(* Configuration requests: administrators and others posting configs with  *)
(* intervals on both sides of the floor, onto an empty or a filled store.   *)
Intervals == {None, 10, 29, 30, 40}
ConfigRequests ==
    {[admin |-> a, enabled |-> e, sync_enabled |-> s, sync_interval |-> i,
      user_dn_template |-> NoTemplate, search_filter |-> EnumFilter,
      auto_create_user |-> FALSE]
        : a \in BOOLEAN, e \in BOOLEAN, s \in BOOLEAN, i \in Intervals}

InitConfig ==
    /\ InitCommon
    /\ configs \in {<<>>, <<StoredConfig(30, TRUE)>>, <<StoredConfig(10, FALSE)>>,
                    <<[StoredConfig(30, FALSE) EXCEPT !.enabled = FALSE]>>}
    /\ directory = {"A"}
    /\ budget = [force |-> 0, requests |-> MaxConfigRequests, dirchg |-> 0, starts |-> 0,
                 stops |-> 0, logins |-> 0, keep |-> 0, faults |-> {"read", "status"}]

NextConfig ==
    \/ \E h \in Handlers, req \in ConfigRequests : ConfigLookup(h, req)
    \/ \E h \in Handlers : ConfigWrite(h)

SpecConfig == InitConfig /\ [][NextConfig]_vars

(* Authentication: logins against configurations of every template and     *)
(* filter shape, with the network failing at any of its operations.         *)
Templates == {NoTemplate, <<"cn=", "{username}">>, <<"cn=", "{}">>}
Filters == {EnumFilter,
            <<"(uid=", "{}", ")">>,
            <<"(uid=", "{username}", ")">>,
            <<"(|(uid=", "{}", ")(mail=", "{}", "))">>,
            <<"(|(uid=", "{}", ")(cn=", "{username}", "))">>,
            <<"(|(uid=", "{username}", ")(cn=", "{username}", "))">>}
Usernames == {"alice", "admin", "zed"}
Passwords == {"", "pa", "svc", "bad"}
Nets == [up1 : BOOLEAN, searchOk : BOOLEAN, up2 : BOOLEAN, readOk : BOOLEAN]

AuthStored(e, t, f) ==
    [enabled |-> e, sync_enabled |-> FALSE, sync_interval |-> 30,
     sync_status |-> "idle", last_sync_time |-> None,
     user_dn_template |-> t, search_filter |-> f,
     auto_create_user |-> FALSE]

InitAuth ==
    /\ InitBase
    /\ accounts \in {<<>>, <<[email |-> "a@x", login_channel |-> "password"]>>}
    /\ rows \in {<<>>} \cup {<<StoredUser(1, "A", "synced", 1, 0)>> : a \in DOMAIN accounts}
    /\ configs \in {<<>> : none \in {rows} \cap {<<>>}} \cup
                   {<<[AuthStored(e, t, f) EXCEPT !.auto_create_user = a]>> :
                        e \in BOOLEAN, t \in Templates, f \in Filters, a \in BOOLEAN}
    /\ directory \in {{"A", "B"}, {"A", "B", "C"}}
    /\ budget = [force |-> 0, requests |-> MaxRequests, dirchg |-> 0, starts |-> 0,
                 stops |-> 0, logins |-> MaxLogins, keep |-> 0, faults |-> {"read", "status"}]

NextAuth ==
    \/ \E u \in Usernames, pw \in Passwords, net \in Nets : LdapLogin(u, pw, net)
    \/ LoginConfig
    \/ LoginLookup
    \/ \E fail \in BOOLEAN : LoginWrite(fail)
    \/ LoginTouch
    \/ LoginAccount
    \/ \E res \in SaveResults : LoginSave(res)
    \/ LoginLink
    \/ \E h \in Handlers,
          req \in {r \in SyncRequests : ~r.enabled /\ ~r.sync_enabled} :
             ConfigLookup(h, req)
    \/ \E h \in Handlers : ConfigWrite(h)

SpecAuth == InitAuth /\ [][NextAuth]_vars

(* Directory sessions: one login and one forced sync, in either order,     *)
(* with the network failing at any operation and upserts failing.           *)
InitSessions ==
    /\ InitCommon
    /\ configs \in {<<[AuthStored(TRUE, t, f) EXCEPT !.sync_enabled = TRUE]>> :
                        t \in Templates, f \in Filters}
    /\ directory = {"A", "B"}
    /\ budget = [force |-> MaxSchedForce, requests |-> 0, dirchg |-> 0, starts |-> 0,
                 stops |-> 0, logins |-> MaxLogins, keep |-> 1, faults |-> {"read", "status"}]

NextSessions ==
    \/ \E u \in Usernames, pw \in Passwords, net \in Nets : LdapLogin(u, pw, net)
    \/ LoginConfig
    \/ LoginLookup
    \/ \E fail \in BOOLEAN : LoginWrite(fail)
    \/ LoginTouch
    \/ \E p \in Forcers : ForceSync(p)
    \/ \E p \in Forcers : SyncQuery(p)
    \/ \E p \in Forcers : SyncAssign(p)
    \/ \E p \in Forcers : SyncBegin(p)
    \/ \E p \in Forcers : SyncRunning(p)
    \/ \E p \in Forcers, connOk \in BOOLEAN : SyncConnect(p, connOk)
    \/ \E p \in Forcers : SyncUsers(p)
    \/ \E p \in Forcers, searchOk \in BOOLEAN : SyncSearch(p, searchOk)
    \/ \E p \in Forcers : SyncLookup(p)
    \/ \E p \in Forcers, fail \in BOOLEAN : SyncWrite(p, fail)
    \/ \E p \in Forcers : SyncFinish(p, FALSE)
    \/ \E p \in Forcers : SyncComplete(p)
    \/ \E p \in Forcers : ForceLookup(p)
    \/ \E p \in Forcers : ForceRecord(p)

SpecSessions == InitSessions /\ [][NextSessions]_vars

(* Configuration requests next to a forced sync: request bodies with and   *)
(* without the keys sync_status and last_sync_time.                         *)
FrameRequests ==
    {[admin |-> a, enabled |-> TRUE, sync_enabled |-> TRUE, sync_interval |-> i,
      user_dn_template |-> NoTemplate, search_filter |-> EnumFilter,
      auto_create_user |-> FALSE] : a \in BOOLEAN, i \in {None, 10, 40}}
    \cup
    {[admin |-> a, enabled |-> TRUE, sync_enabled |-> TRUE, sync_interval |-> 40,
      user_dn_template |-> NoTemplate, search_filter |-> EnumFilter,
      auto_create_user |-> FALSE, sync_status |-> st] :
          a \in BOOLEAN, st \in {"idle", "completed"}}
    \cup
    {[admin |-> TRUE, enabled |-> TRUE, sync_enabled |-> TRUE, sync_interval |-> 40,
      user_dn_template |-> NoTemplate, search_filter |-> EnumFilter,
      auto_create_user |-> FALSE, sync_status |-> "idle", last_sync_time |-> None]}

InitConfigFrame ==
    /\ InitCommon
    /\ configs \in {<<>>, <<StoredConfig(30, TRUE)>>}
    /\ directory = {"A"}
    /\ budget = [force |-> MaxSchedForce, requests |-> MaxConfigRequests, dirchg |-> 0,
                 starts |-> 0, stops |-> 0, logins |-> 0, keep |-> 0, faults |-> {"read", "status"}]

NextConfigFrame ==
    \/ \E h \in Handlers, req \in FrameRequests : ConfigLookup(h, req)
    \/ \E h \in Handlers : ConfigWrite(h)
    \/ \E p \in Forcers : ForceSync(p)
    \/ \E p \in Forcers : SyncQuery(p)
    \/ \E p \in Forcers : SyncAssign(p)
    \/ \E p \in Forcers : SyncBegin(p)
    \/ \E p \in Forcers : SyncRunning(p)
    \/ \E p \in Forcers, connOk \in BOOLEAN : SyncConnect(p, connOk)
    \/ \E p \in Forcers : SyncUsers(p)
    \/ \E p \in Forcers, searchOk \in BOOLEAN : SyncSearch(p, searchOk)
    \/ \E p \in Forcers : SyncLookup(p)
    \/ \E p \in Forcers, fail \in BOOLEAN : SyncWrite(p, fail)
    \/ \E p \in Forcers : SyncFinish(p, FALSE)
    \/ \E p \in Forcers : SyncComplete(p)
    \/ \E p \in Forcers : ForceLookup(p)
    \/ \E p \in Forcers : ForceRecord(p)

SpecConfigFrame == InitConfigFrame /\ [][NextConfigFrame]_vars

(* authenticate_user by itself next to a forced sync that fills the         *)
(* LDAPUser table and moves the config's sync-status.                       *)
InitAuthFrame ==
    /\ InitCommon
    /\ configs \in {<<>>} \cup
                   {<<[AuthStored(e, t, f) EXCEPT !.sync_enabled = TRUE]>> :
                        e \in BOOLEAN, t \in Templates, f \in Filters}
    /\ directory = {"A", "B"}
    /\ budget = [force |-> MaxSchedForce, requests |-> 0, dirchg |-> 0, starts |-> 0,
                 stops |-> 0, logins |-> MaxLogins, keep |-> 0, faults |-> {"read", "status"}]

NextAuthFrame ==
    \/ \E u \in Usernames, pw \in Passwords, net \in Nets : AuthenticateUser(u, pw, net)
    \/ \E p \in Forcers : ForceSync(p)
    \/ \E p \in Forcers : SyncQuery(p)
    \/ \E p \in Forcers : SyncAssign(p)
    \/ \E p \in Forcers : SyncBegin(p)
    \/ \E p \in Forcers : SyncRunning(p)
    \/ \E p \in Forcers, connOk \in BOOLEAN : SyncConnect(p, connOk)
    \/ \E p \in Forcers : SyncUsers(p)
    \/ \E p \in Forcers, searchOk \in BOOLEAN : SyncSearch(p, searchOk)
    \/ \E p \in Forcers : SyncLookup(p)
    \/ \E p \in Forcers, fail \in BOOLEAN : SyncWrite(p, fail)
    \/ \E p \in Forcers : SyncFinish(p, FALSE)
    \/ \E p \in Forcers : SyncComplete(p)
    \/ \E p \in Forcers : ForceLookup(p)
    \/ \E p \in Forcers : ForceRecord(p)

SpecAuthFrame == InitAuthFrame /\ [][NextAuthFrame]_vars

-----------------------------------------------------------------------------
(* Properties                                                              *)

(* C1 (Spec): two sync_users executions for the same configuration are     *)
(* never in progress at the same time, under any interleaving of the        *)
(* scheduler loop and force_sync.                                           *)
C1_SyncsSerialized ==
    \A p \in Procs, q \in Procs :
        (p # q /\ InFlight(p) /\ InFlight(q)) => ex[p].cfg # ex[q].cfg

(* C10 (SpecLoop): over any sequence of start() and stop() calls at most one   *)
(* background loop is alive.                                                *)
C10_AtMostOneLoop == Cardinality({t \in Loops : Alive(t)}) <= 1

(* C7 (SpecLoop): two consecutive syncs the scheduler loop triggers for    *)
(* one configuration are at least max(configured interval, 30) apart.       *)
C7_TriggerSpacing ==
    \A c \in DOMAIN triggers :
        triggers[c].prev # None =>
            triggers[c].last - triggers[c].prev >= triggers[c].need

(* C8 (SpecConfig): a create-or-update request whose sync_interval is below 30   *)
(* is answered with an error and the config store stays as it was.          *)
C8_LowIntervalRejected ==
    [][/\ \A h \in Handlers, req \in ConfigRequests :
            (/\ ConfigLookup(h, req)
             /\ req.sync_interval # None
             /\ req.sync_interval < 30)
            => (/\ configs' = configs
                /\ pending' = pending
                /\ http'.req = req
                /\ http'.code \in {"data_error", "auth_error"})
       /\ configs' # configs
            => \E h \in Handlers :
                  /\ pending[h].pc = "write" /\ pending'[h].pc = "idle"
                  /\ RequestedInterval(pending[h].req) >= 30]_vars

C8_Witness ==
    /\ http.code = "data_error"
    /\ http.req.sync_interval = 29
    /\ http.req.admin
    /\ configs # <<>>
    /\ budget.requests = 0

(* C6 (SpecSync): sync_users called while the store holds no config that   *)
(* is enabled and sync-enabled is a no-op: no execution gets under way.     *)
C6_DisabledIsNoOp ==
    [][\A p \in Procs :
         (~InFlight(p) /\ InFlight(p)') =>
             \E c \in ActiveIds : configs[c].sync_enabled]_vars

(* The records of a config among the rows, and their DNs. *)
RecordsOf(rs, cfg) == {k \in DOMAIN rs : rs[k].ldap_config_id = cfg}
DnsOf(rs, cfg) == {rs[k].ldap_dn : k \in RecordsOf(rs, cfg)}
SameFlags(r1, r2) == r1.is_active = r2.is_active /\ r1.sync_status = r2.sync_status
Fresh(r) == r.is_active /\ r.sync_status = "synced"
Stale(r) == ~r.is_active /\ r.sync_status = "stale"

(* Two passes in succession over the same enumerated directory, neither    *)
(* with a per-entry failure, the second starting from what the first left.  *)
InSuccession(a, b) ==
    /\ a.ok /\ b.ok /\ a.clean /\ b.clean
    /\ a.sok /\ b.sok
    /\ a.cfg = b.cfg /\ a.dir = b.dir
    /\ a.failed = {} /\ b.failed = {}
    /\ b.pre = a.post

Reconciled(s) == s.ok /\ s.sok /\ s.clean

(* C3 as stated (SpecSync): after a successful pass over D with mirror M   *)
(* before it, every entry of D not in M has a new active, synced record;    *)
(* every record of M with DN in D is active, synced and counted as updated; *)
(* every previously active record of M with DN not in D is stale.           *)
C3_PostState ==
    \A i \in DOMAIN passes :
        LET s == passes[i]
            M == RecordsOf(s.pre, s.cfg)
        IN  Reconciled(s) =>
              /\ \A d \in s.dir \ DnsOf(s.pre, s.cfg) :
                    \E k \in RecordsOf(s.post, s.cfg) \ DOMAIN s.pre :
                        s.post[k].ldap_dn = d /\ Fresh(s.post[k])
              /\ \A k \in M : s.pre[k].ldap_dn \in s.dir => Fresh(s.post[k])
              /\ s.stats.updated = Cardinality(DnsOf(s.pre, s.cfg) \cap s.dir)
              /\ \A k \in M :
                    (s.pre[k].is_active /\ s.pre[k].ldap_dn \notin s.dir) => Stale(s.post[k])

(* C3 amended (SpecSync): the same for the entries whose upsert succeeded; *)
(* an entry whose upsert failed gets no new record, and a previously active *)
(* record whose upsert failed is stale like one whose DN is not in D.       *)
C3_PostStateOfUpserted ==
    \A i \in DOMAIN passes :
        LET s == passes[i]
            M == RecordsOf(s.pre, s.cfg)
            done == s.dir \ s.failed
        IN  Reconciled(s) =>
              /\ \A d \in done \ DnsOf(s.pre, s.cfg) :
                    \E k \in RecordsOf(s.post, s.cfg) \ DOMAIN s.pre :
                        s.post[k].ldap_dn = d /\ Fresh(s.post[k])
              /\ \A d \in s.failed \ DnsOf(s.pre, s.cfg) : d \notin DnsOf(s.post, s.cfg)
              /\ \A k \in M : s.pre[k].ldap_dn \in done => Fresh(s.post[k])
              /\ s.stats.updated = Cardinality(DnsOf(s.pre, s.cfg) \cap done)
              /\ \A k \in M :
                    (s.pre[k].is_active /\ s.pre[k].ldap_dn \notin done) => Stale(s.post[k])

C3_Witness ==
    \E i \in DOMAIN passes :
        LET s == passes[i]
        IN  /\ Reconciled(s)
            /\ s.failed = {}
            /\ s.dir = {"A", "C"}
            /\ DnsOf(s.pre, s.cfg) = {"A", "B"}
            /\ \A k \in DOMAIN s.pre : s.pre[k].is_active
            /\ \E k \in DOMAIN s.post : s.post[k].ldap_dn = "B" /\ Stale(s.post[k])
            /\ \E k \in DOMAIN s.post : s.post[k].ldap_dn = "C" /\ Fresh(s.post[k])
            /\ s.stats.created = 1 /\ s.stats.updated = 1 /\ s.stats.deactivated = 1

(* The service-account lookup of the last authenticate_user call succeeded *)
(* and DN resolution ran.                                                   *)
ResolutionRan ==
    /\ auth.called
    /\ auth.out.events # <<>>
    /\ auth.out.events[1].ok

(* C4 (SpecAuth): whenever the directory rejects the bind as the resolved  *)
(* DN with the supplied password, authenticate_user returns success=false.  *)
C4_PasswordJudgedByUserBind ==
    (/\ ResolutionRan
     /\ ~auth.out.resolve.raised
     /\ auth.out.resolve.dn # NoDN
     /\ ~Accepts(auth.out.resolve.dn, auth.password))
    => ~auth.out.ok

(* C5 (SpecAuth): with no active, enabled config authenticate_user returns *)
(* (false, no profile) and attempts no connection, bind or search.          *)
C5_NoConfigFailsClosed ==
    (auth.called /\ auth.active = {}) =>
        /\ ~auth.out.ok
        /\ auth.out.profile = NoProfile
        /\ auth.out.events = <<>>

C5_Witness ==
    /\ auth.called
    /\ auth.active = {}
    /\ configs # <<>>
    /\ auth.username = "alice"
    /\ auth.password = "pa"
    /\ ~auth.out.ok

(* The configured filter with the username put where the field stands. *)
Substitute(s, field, username) ==
    [i \in DOMAIN s |-> IF s[i] = field THEN username ELSE s[i]]

(* C9 (SpecAuth): with a DN template the DN is the formatted template and  *)
(* no search is issued; without one exactly one search is issued, its       *)
(* filter the configured one with the username in place of "{}", else of    *)
(* "{username}", else the default equality filter, and the result is the    *)
(* DN of the first matching entry or no DN.                                 *)
C9_Resolution ==
    ResolutionRan =>
        LET cfg == configs[auth.cfg]
            r == auth.out.resolve
            u == auth.username
            expected ==
                IF HasField(cfg.search_filter, "{}")
                THEN Substitute(cfg.search_filter, "{}", u)
                ELSE IF HasField(cfg.search_filter, "{username}")
                THEN Substitute(cfg.search_filter, "{username}", u)
                ELSE <<"(uid=", u, ")">>
            found == {d \in directory : Matches(d, expected)}
        IN  IF cfg.user_dn_template # NoTemplate
            THEN /\ r.searches = <<>>
                 /\ ~r.raised => r.dn = Substitute(cfg.user_dn_template, "{username}", u)
            ELSE /\ r.searches = <<expected>>
                 /\ r.dn = NoDN \/ (found # {} /\ r.dn = DnString(FirstOf(found)))

(* C13 (SpecMirror): force_sync calls sync_users whatever the time since   *)
(* the last attempt and whether or not the scheduler runs; a successful     *)
(* forced sync stamps last_sync_time of the active config (a config that    *)
(* is enabled as force_sync looks it up) with the current time, a failed    *)
(* one leaves every timestamp as it was and returns False.                  *)
C13_ForceSync ==
    /\ \A p \in Forcers :
          (budget.force > 0 /\ ex[p].pc = "idle") => ENABLED ForceSync(p)
    /\ \A i \in DOMAIN passes :
          LET s == passes[i]
          IN  s.p \in Forcers =>
                IF s.ok
                THEN \/ s.active = {} /\ s.lst = s.lst0
                     \/ \E c \in s.active : s.lst = [s.lst0 EXCEPT ![c] = s.stamped]
                ELSE s.lst = s.lst0

C13_Witness ==
    \E i \in DOMAIN passes :
        LET s == passes[i]
        IN  /\ s.p \in Forcers /\ s.ok /\ s.running
            /\ \E c \in s.active :
                  /\ s.lst0[c] # None
                  /\ s.stamped - s.lst0[c] < MinInterval
                  /\ s.stamped > s.lst0[c]
                  /\ s.lst[c] = s.stamped

(* C11 (SpecLoop): stop() called while a scheduled sync_users execution is *)
(* in progress does not abort it: stop() leaves the executions alone, and   *)
(* the execution runs to its end, where the config's sync-status is         *)
(* completed or error.                                                      *)
C11_StopDoesNotAbort ==
    /\ [][(running /\ ~running') => ex' = ex]_vars
    /\ \A t \in Loops :
          (InFlight(t) /\ ~running)
            ~> (/\ ~InFlight(t)
                /\ \A c \in DOMAIN configs :
                      configs[c].sync_status \in {"completed", "error"})

C11_Witness ==
    /\ ~running
    /\ ctl.pc = "idle"
    /\ budget.stops < MaxLoopStops
    /\ \E t \in Loops : ex[t].pc = "upsert" /\ ex[t].todo = <<>>

(* C12 (SpecLoop): once stop() has returned and until start() is called    *)
(* again, no background loop starts a sync_users execution.                 *)
C12_NoSyncAfterStop ==
    [][\A t \in Loops :
         (loops[t].pc = "armed" /\ loops'[t].pc # "armed")
            => ~(~running /\ ctl.pc = "idle")]_vars

(* C18 (SpecLoop): a background loop ends only when the scheduler was      *)
(* stopped, and every pause after a tick, also after a tick in which an     *)
(* exception was raised, is followed by the next tick.                      *)
C18_LoopSurvives ==
    /\ [][\A t \in Loops : (Alive(t) /\ ~Alive(t)') => ~running]_vars
    /\ \A t \in Loops :
          (loops[t].pc = "sleep" /\ loops[t].wake <= MaxTime)
            ~> (loops[t].pc = "top")

C18_Witness ==
    \E t \in Loops :
        /\ running
        /\ loops[t].pc = "top"
        /\ loops[t].boom
        /\ now >= TickSleep

(* C19 (SpecLoop): after a tick in which an exception was raised the loop  *)
(* pauses 30 time units before the next tick.                               *)
C19_BackoffAfterError ==
    \A t \in Loops :
        (loops[t].pc = "sleep" /\ loops[t].boom)
            => loops[t].wake - loops[t].slept >= ErrorSleep

(* C16 (SpecMirror): a sync_users call that passes its preconditions sets the    *)
(* config's sync-status to running, leaving its last-sync time alone, in    *)
(* the step before the one that opens the session; the step in which it     *)
(* returns leaves the status completed with the last-sync time stamped and  *)
(* the return value true, or error with the last-sync time as it was and    *)
(* the return value false; an execution in flight never comes to its end    *)
(* any other way.                                                           *)
C16_StatusLifecycle ==
    [][\A p \in Procs :
         /\ (~InFlight(p) /\ InFlight(p)')
               => LET c == ex'[p].cfg
                  IN  /\ ex'[p].pc = "connect"
                      /\ ~ex'[p].bound
                      /\ configs'[c].sync_status = "running"
                      /\ configs'[c].last_sync_time = configs[c].last_sync_time
         /\ (~ex[p].bound /\ ex'[p].bound) => ex[p].pc = "connect"
         /\ (InFlight(p) /\ ~InFlight(p)')
               => LET c == ex[p].cfg
                      s == IF ex'[p].pc = "forced" THEN ex'[p].ret
                           ELSE IF passes' # <<>> THEN passes'[Len(passes')]
                           ELSE NoSummary
                  IN  /\ s.p = p /\ s.cfg = c /\ ~s.empty
                      /\ \/ /\ s.ok
                            /\ configs'[c].sync_status = "completed"
                            /\ configs'[c].last_sync_time = now
                         \/ /\ ~s.ok
                            /\ configs'[c].sync_status = "error"
                            /\ configs'[c].last_sync_time = configs[c].last_sync_time]_vars

C16_Witness ==
    \E i \in DOMAIN passes :
        LET s == passes[i]
        IN  /\ ~s.empty /\ ~s.ok
            /\ s.status = "error"
            /\ s.cfg_last # None /\ s.cfg_last < s.at
            /\ s.cfg_last = s.cfg_last0

(* C17 (SpecMirror): a pass that enumerated N entries of which k failed at   *)
(* the upsert went through to its end: the errors counter is k, created     *)
(* plus updated is N - k, every entry that did not fail has a record that   *)
(* is active and synced (when no other pass ran beside this one), and the   *)
(* pass returned true with sync-status completed.                           *)
C17_EntryFailuresIsolated ==
    \A i \in DOMAIN passes :
        LET s == passes[i]
            N == Cardinality(s.dir)
            k == Cardinality(s.failed)
        IN  s.sok =>
              /\ s.stats.total_found = N
              /\ s.stats.errors = k
              /\ s.stats.created + s.stats.updated = N - k
              /\ s.clean =>
                    \A d \in s.dir \ s.failed :
                        \E r \in RecordsOf(s.post, s.cfg) :
                            s.post[r].ldap_dn = d /\ Fresh(s.post[r])
              /\ s.ok
              /\ s.status = "completed"

C17_Witness ==
    \E i \in DOMAIN passes :
        LET s == passes[i]
        IN  /\ s.sok /\ s.ok /\ s.clean
            /\ s.failed # {}
            /\ s.dir \ s.failed # {}
            /\ s.stats.errors = Cardinality(s.failed)
            /\ s.stats.created >= 1
            /\ s.status = "completed"

(* C15 (SpecAuth): no exception leaves authenticate_user, and a call in    *)
(* which a service bind, the user bind, the search, the read of the         *)
(* attributes or the building of the DN or filter failed returned           *)
(* (false, no profile).                                                     *)
C15_FailuresReturnFalse ==
    auth.called =>
        LET o == auth.out
        IN  /\ ~o.escaped
            /\ (o.resolve.raised \/ \E i \in DOMAIN o.events : ~o.events[i].ok)
                  => (~o.ok /\ o.profile = NoProfile)

C15_Witness ==
    /\ auth.called
    /\ ~auth.out.ok /\ ~auth.out.escaped
    /\ auth.out.profile = NoProfile
    /\ \E i \in DOMAIN auth.out.events :
          /\ i > 1
          /\ auth.out.events[i] = Ev("bind", ServiceDN, ServicePassword, FALSE)
          /\ \E j \in 1..(i - 1) :
                /\ auth.out.events[j].op = "bind"
                /\ auth.out.events[j].dn # ServiceDN
                /\ auth.out.events[j].ok

(* The sessions events leave bound: per identity, the successful binds     *)
(* that no later unbind of that identity answers.                           *)
StillBound(events) ==
    {i \in DOMAIN events :
        /\ events[i].op = "bind" /\ events[i].ok
        /\ Cardinality({j \in DOMAIN events : j >= i /\ events[j].op = "bind"
                            /\ events[j].ok /\ events[j].dn = events[i].dn})
             > Cardinality({j \in DOMAIN events : j > i /\ events[j].op = "unbind"
                            /\ events[j].dn = events[i].dn})}

(* C14 (SpecSessions): when authenticate_user has returned, every session  *)
(* it bound has been unbound, whatever failed in between; when sync_users   *)
(* has returned, its session is not bound, and no execution that is not in  *)
(* progress holds a bound session.                                          *)
C14_SessionsUnbound ==
    /\ auth.called => StillBound(auth.out.events) = {}
    /\ \A i \in DOMAIN passes : ~passes[i].bound
    /\ \A p \in Procs : ~InFlight(p) => ~ex[p].bound

C14_Witness ==
    /\ auth.called
    /\ auth.out.resolve.raised
    /\ \E i \in DOMAIN auth.out.events : auth.out.events[i] = Ev("bind", ServiceDN, ServicePassword, TRUE)
    /\ \E i \in DOMAIN passes :
          passes[i].ok /\ passes[i].sok /\ passes[i].failed # {}

(* C20 (SpecConfig): in every state that create-or-update requests          *)
(* reach, one after the other or side by side, at most one config is        *)
(* enabled.                                                                 *)
C20_AtMostOneActive == Cardinality(ActiveIds) <= 1

(* C23 (SpecLoop): the step of a tick that triggers a sync sets the        *)
(* scheduler's last-attempt time of the config to the time the tick read,   *)
(* which is the current time, as it invokes sync_users; no later step of    *)
(* that sync_users execution, whether it ends in success or in failure,     *)
(* changes the scheduler's last-attempt times.                              *)
C23_AttemptStampedBeforeSync ==
    [][\A t \in Loops :
         /\ (loops[t].pc = "armed" /\ loops'[t].pc # "armed")
               => /\ last_sync_time'[loops[t].cfg] = loops[t].tnow
                  /\ loops[t].tnow = now
                  /\ ex[t].pc = "idle"
         /\ (ex[t].pc # "idle" /\ ex'[t] # ex[t])
               => last_sync_time' = last_sync_time]_vars

C23_Witness ==
    \E t \in Loops :
        /\ loops[t].pc = "sleep"
        /\ ~InFlight(t)
        /\ \A u \in Loops \ {t} : ~Alive(u)
        /\ budget.starts = MaxStarts - 1
        /\ configs[1].sync_status = "error"
        /\ last_sync_time[1] # None
        /\ last_sync_time[1] < now

(* C24 (SpecSync): within one sync_users call the staleness pass runs only *)
(* when every enumerated entry has had its create or update, the upserts    *)
(* themselves mark nothing stale, and the staleness pass leaves every       *)
(* record the call created or updated as the upsert left it.                *)
C24_UpsertsBeforeStaleness ==
    [][\A p \in Procs :
         /\ (ex[p].pc = "upsert" /\ ex'[p].pc = "complete")
               => /\ ex[p].todo = <<>>
                  /\ \A k \in DOMAIN rows :
                        (/\ rows[k].ldap_config_id = ex[p].cfg
                         /\ rows[k].ldap_dn \in ex[p].dir \ ex[p].failed)
                            => rows'[k] = rows[k]
         /\ (ex[p].pc = "write" /\ ex'[p].pc # "write")
               => /\ ex'[p].todo = Tail(ex[p].todo)
                  /\ \A k \in DOMAIN rows : Stale(rows'[k]) => Stale(rows[k])]_vars

C24_Witness ==
    \E i \in DOMAIN passes :
        LET s == passes[i]
        IN  /\ Reconciled(s)
            /\ s.stats.created >= 1 /\ s.stats.updated >= 1 /\ s.stats.deactivated >= 1
            /\ \A d \in s.dir \ s.failed :
                  \E k \in RecordsOf(s.post, s.cfg) : s.post[k].ldap_dn = d /\ Fresh(s.post[k])

(* C25 (SpecSync): a record is marked stale by a pass only if the pass's   *)
(* enumeration of the directory completed and did not contain the record's  *)
(* DN; a pass whose search failed marks no record stale.                    *)
C25_StaleOnlyWhenNotEnumerated ==
    \A i \in DOMAIN passes :
        LET s == passes[i]
        IN  (s.ok /\ s.clean) =>
              \A k \in DOMAIN s.pre :
                  (~Stale(s.pre[k]) /\ Stale(s.post[k]))
                     => (s.sok /\ s.pre[k].ldap_dn \notin s.dir)

(* C26 (SpecSync): the staleness pass of a sync whose enumeration went     *)
(* through marks stale exactly the records of the synced config that were   *)
(* active and whose DN was not enumerated: a record whose entry was         *)
(* enumerated is not marked stale, also when its upsert failed, and         *)
(* inactive records outside the enumeration and records of other configs    *)
(* stay as they were.                                                       *)
C26_StaleExactlyUnobserved ==
    \A i \in DOMAIN passes :
        LET s == passes[i]
        IN  (s.ok /\ s.sok /\ s.clean) =>
              \A k \in DOMAIN s.pre :
                  LET r == s.pre[k]
                      marked == ~Stale(r) /\ Stale(s.post[k])
                  IN  /\ marked <=> (/\ r.ldap_config_id = s.cfg
                                     /\ r.is_active
                                     /\ r.ldap_dn \notin s.dir)
                      /\ (r.ldap_config_id # s.cfg \/ (~r.is_active /\ r.ldap_dn \notin s.dir))
                            => s.post[k] = r

(* C27 (SpecMirror): a sync_users pass in which the connection could not   *)
(* be set up, or in which the staleness update failed, returns false with   *)
(* the config's sync-status error.                                          *)
C27_ConnectOrStalenessFailureAborts ==
    \A i \in DOMAIN passes :
        LET s == passes[i]
        IN  /\ s.mfail => (~s.ok /\ s.status = "error")
            /\ (~s.empty /\ ~s.ok) => s.status = "error"

(* The positions of the binds attempted in a sequence of directory         *)
(* operations, and the sessions open before position i.                     *)
BindsIn(events) == {i \in DOMAIN events : events[i].op = "bind"}
NthBind(events, n) ==
    CHOOSE i \in BindsIn(events) :
        Cardinality({j \in BindsIn(events) : j <= i}) = n
OpenBefore(events, i) ==
    Cardinality({j \in 1..(i - 1) : events[j].op = "bind" /\ events[j].ok})
      - Cardinality({j \in 1..(i - 1) : events[j].op = "unbind"})

(* C29 (SpecAuth): in authenticate_user the first bind is the service      *)
(* account's; the bind as the resolved DN comes right after the unbind of   *)
(* the lookup session, with no session open, and only when a DN was         *)
(* resolved (otherwise the call fails with no second bind); the session     *)
(* that fetches the attributes is opened only after that bind succeeded.    *)
C29_PhasesInOrder ==
    auth.called =>
        LET ev == auth.out.events
            r == auth.out.resolve
            n == Cardinality(BindsIn(ev))
        IN  /\ n <= 3
            /\ n >= 1 => ev[1] = Ev("bind", ServiceDN, ServicePassword, ev[1].ok)
            /\ (r.raised \/ r.dn = NoDN) => (n <= 1 /\ ~auth.out.ok)
            /\ n >= 2 =>
                  LET u == NthBind(ev, 2)
                  IN  /\ ev[u - 1] = Ev("unbind", ServiceDN, "", TRUE)
                      /\ OpenBefore(ev, u) = 0
                      /\ ev[u].dn = r.dn
            /\ n >= 3 =>
                  /\ ev[NthBind(ev, 2)].ok
                  /\ NthBind(ev, 3) = NthBind(ev, 2) + 1
                  /\ ev[NthBind(ev, 3)].dn = ServiceDN

C29_Witness ==
    /\ auth.called
    /\ auth.out.ok
    /\ Cardinality(BindsIn(auth.out.events)) = 3
    /\ auth.out.resolve.searches # <<>>
    /\ auth.out.events[NthBind(auth.out.events, 2)].dn # ServiceDN


RowsOf(rs, cfg, d) ==
    {k \in DOMAIN rs : rs[k].ldap_config_id = cfg /\ rs[k].ldap_dn = d}

(* The entries whose mapped attribute for the field is absent or empty.     *)
Lacks(d, field) ==
    \/ AttrMapping[field] \notin DOMAIN Entries[d]
    \/ Entries[d][AttrMapping[field]] = <<>>

(* C22 (SpecMirror): a pass that enumerated the directory counts as errors  *)
(* only the entries the store refused; an entry without the attribute       *)
(* mapped to nickname that the store accepted has its record, created or    *)
(* updated, with the nickname empty.                                        *)
C22_MissingAttributeStillUpserted ==
    \A i \in DOMAIN passes :
        LET s == passes[i]
        IN  (s.ok /\ s.sok) =>
              /\ s.stats.errors = Cardinality(s.failed)
              /\ s.stats.created + s.stats.updated = Cardinality(s.dir \ s.failed)
              /\ \A d \in s.dir \ s.failed :
                    Lacks(d, "nickname") =>
                      /\ RowsOf(s.post, s.cfg, d) # {}
                      /\ \A k \in RowsOf(s.post, s.cfg, d) :
                            s.post[k].nickname = NoValue

C22_Witness ==
    \E i \in DOMAIN passes :
        LET s == passes[i]
        IN  /\ s.ok /\ s.sok /\ s.dir = {"B", "D"}
            /\ s.stats.errors = 0 /\ s.stats.created = 2
            /\ \E k \in RowsOf(s.post, s.cfg, "D") :
                  s.post[k].nickname = NoValue /\ s.post[k].email = "a@x"


(* The records of a config that one of the three lookups of an entry's data *)
(* finds: by DN, by external username, by email.                            *)
MatchesOf(rs, cfg, data) ==
    {k \in RecordsOf(rs, cfg) :
        \/ rs[k].ldap_dn = data.dn
        \/ data.username # NoValue /\ rs[k].ldap_username = data.username
        \/ data.email # NoValue /\ rs[k].email = data.email}

(* C28 (SpecMirror): the upsert of an entry creates a new record only when  *)
(* no record of the config has the entry's DN, its external username or its *)
(* email.                                                                   *)
C28_LookupPrecedence ==
    [][\A p \in Forcers :
          (/\ ex[p].pc = "write"
           /\ ex'[p].todo = Tail(ex[p].todo)
           /\ Len(rows') > Len(rows))
          => MatchesOf(rows, ex[p].cfg, UserData(Head(ex[p].todo))) = {}]_vars


(* An upsert step of the pass of p that created a record, and the record.   *)
CreatesRecord(p) ==
    /\ ex[p].pc = "write"
    /\ ex'[p].todo = Tail(ex[p].todo)
    /\ Len(rows') > Len(rows)

(* What the provisioning hook of sync_users does in a step of the pass of  *)
(* p under the flag auto: it is entered for a created record exactly when   *)
(* the flag is on; its query, when an account has the record's email, picks *)
(* such an account and creates none; its link sets the record's account to  *)
(* the one picked or saved; and only its save adds an account.              *)
HookFollows(p, auto) ==
    /\ CreatesRecord(p) =>
          /\ auto <=> ex'[p].pc \in {"hookquery", "hooksave"}
          /\ accounts' = accounts
          /\ rows'[Len(rows')].user_id = None
    /\ (ex[p].pc = "hookquery" /\ ex'[p].pc # "hookquery") =>
          LET same == AccountsByEmail(accounts, ex[p].hook.email)
          IN  /\ accounts' = accounts
              /\ same # {} => (ex'[p].pc = "hooklink" /\ ex'[p].hook.account \in same)
    /\ (ex[p].pc = "hooklink" /\ ex'[p].pc # "hooklink") =>
          /\ accounts' = accounts
          /\ rows'[ex[p].hook.user].user_id = ex[p].hook.account

(* The hook under the flag of the config object the pass holds. *)
HookFollowsHeldFlag ==
    [][\A p \in Loops \cup Forcers : HookFollows(p, ex[p].auto)]_vars

(* C30 (SpecProvision): when a pass creates a record, with auto-provision   *)
(* enabled in the stored config as the pass began and a local account with  *)
(* the record's email, the record is linked to that account and no account  *)
(* is created; with auto-provision disabled no account is created or        *)
(* linked.                                                                  *)
C30_ProvisionFollowsFlag ==
    [][\A p \in Loops \cup Forcers : HookFollows(p, ex[p].auto0)]_vars


(* C21 (SpecUpsertRace): no two rows of the LDAPUser table have the same    *)
(* config and the same DN, however the upserts of the sync pass and of the  *)
(* login interleave.                                                        *)
C21_UniqueConfigDn ==
    \A i, j \in DOMAIN rows :
        (rows[i].ldap_config_id = rows[j].ldap_config_id
           /\ rows[i].ldap_dn = rows[j].ldap_dn) => i = j

(* Both threads looked the same entry up before either wrote: one created   *)
(* the record, the other's create did not go through.                      *)
C21_Witness ==
    /\ \A h \in Upserters :
          /\ upserting[h].pc = "idle" /\ upserting[h].dn = "A"
          /\ upserting[h].existing = None /\ upserting[h].calls = 1
    /\ upserting[1].result = "created"
    /\ upserting[2].result = "failed"
    /\ Cardinality(RowsOf(rows, 1, "A")) = 1


(* C31 (SpecAuthFrame): a step in which authenticate_user runs, whatever it *)
(* answers, leaves the LDAPUser table and the LDAPConfig table, sync-status *)
(* and last-sync time included, as they were.                               *)
C31_AuthenticateLeavesStores ==
    [][auth' # auth => (rows' = rows /\ configs' = configs)]_vars

C31_Witness ==
    /\ auth.called /\ ~auth.out.ok
    /\ auth.cfg # None
    /\ rows # <<>>
    /\ configs[auth.cfg].sync_status = "running"


(* C32 (SpecConfigFrame): the step of a create-or-update request, whatever  *)
(* keys its body carries, leaves the sync-status and the last-sync time of  *)
(* every stored config as they were.                                        *)
C32_RequestsLeaveSyncFields ==
    [][(\E h \in Handlers : pending[h].pc = "write" /\ pending'[h].pc = "idle") =>
          \A c \in DOMAIN configs :
              /\ configs'[c].sync_status = configs[c].sync_status
              /\ configs'[c].last_sync_time = configs[c].last_sync_time]_vars


(* C33 (Spec): while a sync_users execution for a config is in flight the   *)
(* config's sync-status is running; once none is in flight, the status and  *)
(* the last-sync time are those the execution that returned last wrote.     *)
C33_NoLostStatusUpdate ==
    /\ \A p \in Procs :
          InFlight(p) => configs[ex[p].cfg].sync_status = "running"
    /\ ((\A p \in Procs : ~InFlight(p)) /\ passes # <<>>)
          => LET s == passes[Len(passes)]
             IN  ~s.empty =>
                   /\ configs[s.cfg].sync_status = s.status
                   /\ configs[s.cfg].last_sync_time = s.cfg_last


(* No stored config is enabled and sync-enabled: whichever config the tick  *)
(* reads as the active one, it is absent, disabled or sync-disabled.        *)
NothingToSync == \A c \in ActiveIds : ~configs[c].sync_enabled

(* C34 (SpecTicks): a tick of the running loop that finds the active config *)
(* absent, disabled or sync-disabled goes to its pause: no sync_users       *)
(* execution starts, and the table of last attempts, the configs and the    *)
(* records stay as they were.                                               *)
C34_IdleTickDoesNothing ==
    [][\A t \in Loops :
         (loops[t].pc = "top" /\ loops'[t].pc # "top" /\ running /\ NothingToSync)
            => /\ loops'[t].pc = "sleep"
               /\ loops'[t].wake = now + TickSleep
               /\ last_sync_time' = last_sync_time
               /\ ex' = ex /\ passes' = passes /\ triggers' = triggers
               /\ configs' = configs /\ rows' = rows]_vars

C34_Witness ==
    \E t \in Loops :
        /\ running
        /\ loops[t].pc = "sleep"
        /\ budget.requests = MaxRequests
        /\ configs # <<>>
        /\ configs[1].enabled /\ ~configs[1].sync_enabled
        /\ last_sync_time = [c \in 1..MaxConfigs |-> None]


(* C35 (SpecAuth): the second bind of authenticate_user is attempted as the *)
(* resolved DN with the password the caller supplied, the empty one         *)
(* included, and a success means that the directory accepts the resolved DN *)
(* with the supplied password.                                              *)
C35_UserBindAsSupplied ==
    auth.called =>
        /\ Cardinality(BindsIn(auth.out.events)) >= 2 =>
              LET b == auth.out.events[NthBind(auth.out.events, 2)]
              IN  b.dn = auth.out.resolve.dn /\ b.pw = auth.password
        /\ auth.out.ok => Accepts(auth.out.resolve.dn, auth.password)


(* C36 (SpecSync): the config object a sync_users execution works with,     *)
(* from the test of its preconditions on, is the active config as the store *)
(* holds it when the execution starts.                                      *)
C36_ConfigAsStoredAtStart ==
    [][(\/ \E p \in Procs : ~InFlight(p) /\ InFlight(p)'
        \/ passes' # passes /\ passes'[Len(passes')].empty)
       => svc_config'[1] \in {Snapshot(c) : c \in get_active_config}]_vars


Counted(stats) == stats.created + stats.updated + stats.errors

(* C37 (SpecMirror): the stats of a sync_users call that returned true have *)
(* total_found = created + updated + errors; in a call that returned false, *)
(* and in an execution under way, created + updated + errors is at most     *)
(* total_found.                                                             *)
C37_StatsAddUp ==
    /\ \A i \in DOMAIN passes :
          LET s == passes[i]
          IN  /\ s.ok => s.stats.total_found = Counted(s.stats)
              /\ ~s.ok => Counted(s.stats) <= s.stats.total_found
    /\ \A p \in Procs : Counted(ex[p].stats) <= ex[p].stats.total_found

C37_Witness ==
    \E i \in DOMAIN passes :
        LET s == passes[i]
        IN  /\ s.ok /\ s.stats.total_found = 2
            /\ s.stats.created = 1 /\ s.stats.updated = 0 /\ s.stats.errors = 1


(* C38 (SpecReactivate): the upsert of an enumerated entry whose record is  *)
(* inactive, made stale by an earlier pass or deactivated by an             *)
(* administrator, leaves the record active with sync-status synced, and the *)
(* staleness update that ends the pass leaves the records of the entries it *)
(* upserted as they are.                                                    *)
C38_ObservedRecordReactivated ==
    [][\A p \in Forcers :
         /\ (/\ ex[p].pc = "write"
             /\ ex'[p].todo = Tail(ex[p].todo)
             /\ Head(ex[p].todo) \notin ex'[p].failed)
               => \A k \in RowsOf(rows, ex[p].cfg, Head(ex[p].todo)) :
                     ~rows[k].is_active => Fresh(rows'[k])
         /\ (ex[p].pc = "upsert" /\ ex'[p].pc = "complete")
               => \A k \in RecordsOf(rows, ex[p].cfg) :
                     (rows[k].ldap_dn \in ex[p].active_dns /\ Fresh(rows[k]))
                        => Fresh(rows'[k])]_vars

(* A pass that returned true found a record deactivated by an               *)
(* administrator and one made stale, and left both active and synced.       *)
C38_Witness ==
    \E i \in DOMAIN passes :
        LET s == passes[i]
        IN  /\ s.ok /\ s.sok
            /\ \E k \in DOMAIN s.pre :
                  /\ ~s.pre[k].is_active /\ s.pre[k].sync_status = "synced"
                  /\ s.pre[k].ldap_dn \in s.dir \ s.failed
                  /\ Fresh(s.post[k])
            /\ \E k \in DOMAIN s.pre :
                  /\ Stale(s.pre[k])
                  /\ s.pre[k].ldap_dn \in s.dir \ s.failed
                  /\ Fresh(s.post[k])


(* C39 (SpecLoop): after stop(), and as long as start() is not called      *)
(* again, every background loop ends: a loop at its loop test ends there,   *)
(* and a loop that is in a tick, in a sync_users execution or in a sleep    *)
(* comes back to the loop test or ends, unless its sleep reaches beyond the *)
(* time the model covers.                                                   *)
C39_LoopEndsAfterStop ==
    \A t \in Loops :
        /\ (~running /\ loops[t].pc = "top") ~> (~Alive(t) \/ running)
        /\ (~running /\ Alive(t))
              ~> (\/ ~Alive(t)
                  \/ running
                  \/ loops[t].pc = "sleep" /\ loops[t].wake > MaxTime)

(* stop() found the thread alive and waits in join; the thread has ended.   *)
C39_Witness ==
    /\ ~running
    /\ ctl.pc = "join"
    /\ ~Alive(thread)
    /\ budget.stops < MaxLoopStops


(* The first k ticks of both schedulers fell on the same times and found   *)
(* the config store in the same states.                                     *)
SameTicks(k) ==
    \A i \in 1..k :
        LET a == policy.thread.ticks[i]
            b == policy.async.ticks[i]
        IN  a.t = b.t /\ a.store = b.store

(* C40 (SpecPolicy): over the same sequence of tick times and config-store *)
(* states the thread-based and the event-loop-based scheduler invoke        *)
(* sync_users on the same ticks and record the same last-attempt            *)
(* timestamps: when the first k ticks of both fell on the same times and    *)
(* found the same store, the k-th tick of both has the same outcome and     *)
(* leaves the same last_sync_time.                                          *)
C40_SamePolicy ==
    \A k \in 1..Len(policy.thread.ticks) :
        (k <= Len(policy.async.ticks) /\ SameTicks(k))
            => /\ policy.thread.ticks[k].outcome = policy.async.ticks[k].outcome
               /\ policy.thread.ticks[k].last_sync_time
                     = policy.async.ticks[k].last_sync_time

====
